---- MODULE Spec2Model ----
(***************************************************************************)
(* Model of postgresql.driver as described by                              *)
(* src/postgresql/documentation/driver.py: one Connection (db), the        *)
(* Transaction objects created by db.xact(...), the with-statement         *)
(* (context manager) protocol around them, and the PostgreSQL backend the  *)
(* connection talks to.                                                    *)
(*                                                                         *)
(* A method call either finishes on the client without sending anything,   *)
(* or sends one statement and leaves the session Busy until ServerReply    *)
(* takes the backend's answer together with the ready-for-query marker and *)
(* finishes the method.  The connection can be lost at any moment          *)
(* (ConnectionLost).                                                       *)
(*                                                                         *)
(* The caller is any single-threaded Python program: it may create         *)
(* transaction objects, drive them with the direct methods in any order,   *)
(* nest with-blocks, run SQL that fails, raise Python exceptions and catch *)
(* exceptions inside or outside of a block.  The one discipline assumed is *)
(* the documented one: while the with-block of a transaction is open, the  *)
(* only direct method called on that transaction is prepare().             *)
(***************************************************************************)
EXTENDS Integers, Sequences, FiniteSets

\* The number of transaction objects db.xact(...) creates.
MaxXacts == 2

VARIABLES
  state,    \* the Session's state
  tstatus,  \* the transaction-status byte last reported by ready-for-query
  srv,      \* the backend: its transaction state, savepoints, prepared gids
  xacts,    \* the Transaction objects, in creation order
  ctx,      \* the open with-blocks, innermost last
  exc,      \* the exception propagating in the caller, NoExc if none
  call,     \* the method call awaiting the backend, NoCall if none
  submode,  \* the Session's active sub-protocol
  task,     \* the statement method running on the connection, "none" if none
  input,    \* the records given to the running load()
  sent,     \* the messages the running method has put on the wire, in order
  issued,   \* the number of requests the caller has made
  log,      \* the requests that reached the wire, in order
  table,    \* the backend's table: the records loaded, in order
  srvout,   \* the COPY TO STDOUT records the backend has yet to send
  iter,     \* the iterator over the COPY TO STDOUT result
  buf,      \* the records read for the iterator and not yet taken from it
  got,      \* the records the caller has taken from the iterator
  pipe,     \* the transfer copyin.load(copyout.chunks()) between two connections
  curs,     \* the scrollable cursors declared on the connection
  stm,      \* the prepared statement and its last execution
  settings, \* the backend's runtime parameters and the open settings blocks
  conv,     \* the parameter being serialized and the column read back
  stream,   \* the iterator of ps.rows() and the result it reads
  row       \* the Row being interrogated

\* The state of the COPY traffic.
cvars == <<submode, task, input, sent, issued, log, table, srvout, iter, buf, got>>

\* The state of the chunk transfer, of the cursors and of the prepared
\* statement.
xvars == <<settings, conv, stream, row>>

evars == <<pipe, curs, stm, xvars>>

vars == <<state, tstatus, srv, xacts, ctx, exc, call, cvars, evars>>

\* No statement runs and nothing was copied.
CopyIdle ==
  /\ submode = "none" /\ task = "none" /\ input = <<>> /\ sent = <<>>
  /\ issued = 0 /\ log = <<>> /\ table = <<>> /\ srvout = <<>>
  /\ iter = "none" /\ buf = <<>> /\ got = <<>>

\* No transfer is under way.
NoPipe ==
  [pc |-> "none", size |-> 0, source |-> <<>>, held |-> <<>>, dest |-> <<>>,
   all |-> <<>>]

\* No cursor is declared.
NoCursors ==
  [pc |-> "none", n |-> 0, pos |-> [c \in {"C", "R"} |-> 0],
   res |-> [c \in {"C", "R"} |-> <<>>], held |-> [c \in {"C", "R"} |-> <<>>],
   req |-> [op |-> "none", n |-> 0, arg |-> ""]]

\* No statement is prepared.
NoStmt ==
  [pc |-> "none",
   st |-> [sql |-> "", ptypes |-> <<>>, columns |-> 0, command |-> ""],
   method |-> "", params |-> <<>>,
   reply |-> [shape |-> "none", command |-> "", count |-> "", rows |-> <<>>,
              error |-> [name |-> "None", code |-> "", source |-> ""]],
   result |-> [type |-> "NoneType", lit |-> "None", items |-> <<>>],
   fault |-> "none"]

\* The runtime parameters as the backend starts with, outside of any
\* settings block.
NoSettings ==
  [gucs |-> [k \in {"search_path", "timezone"} |-> "default"], open |-> <<>>,
   left |-> <<>>]

\* Nothing is being serialized.
NoConv ==
  [pc |-> "none", type |-> "",
   value |-> [type |-> "NoneType", n |-> 0, items |-> <<>>],
   wire |-> <<>>,
   back |-> [type |-> "NoneType", n |-> 0, items |-> <<>>]]

\* No rows() iterator exists.
NoStream ==
  [pc |-> "none", from |-> 0, to |-> 0, chunksize |-> 1, portal |-> <<>>,
   complete |-> FALSE, buffer |-> <<>>, yielded |-> <<>>, trips |-> 0]

\* No Row is at hand.
NoRow ==
  [pc |-> "none", column_names |-> <<>>, values |-> <<>>, key |-> "", index |-> 0,
   result |-> [type |-> "NoneType", lit |-> "None", items |-> <<>>],
   error |-> ""]

\* Nothing but the connection exists.
ElseIdle ==
  /\ pipe = NoPipe /\ curs = NoCursors /\ stm = NoStmt
  /\ settings = NoSettings /\ conv = NoConv /\ stream = NoStream /\ row = NoRow

-----------------------------------------------------------------------------
\* Session states.
SessionStates ==
  {"Connecting", "Authenticating", "ParameterNegotiation", "Ready", "Busy", "Closed"}

\* The transaction-status byte carried by ready-for-query: idle, in a
\* transaction block, in a failed transaction block.
StatusBytes == {"I", "T", "E"}

\* The state the Session State Machine names: a session that is ready while the
\* backend reports a failed transaction is Failed.
SessionState == IF state = "Ready" /\ tstatus = "E" THEN "Failed" ELSE state

-----------------------------------------------------------------------------
\* Exceptions: the class, the SQL state code, and who raised it.
Exc(n, c, s) == [name |-> n, code |-> c, source |-> s]

NoExc == Exc("None", "", "")

ConnectionDoesNotExistError == Exc("ConnectionDoesNotExistError", "08003", "CLIENT")

ConnectionFailureError == Exc("ConnectionFailureError", "08006", "CLIENT")

\* The driver's safe-guard: "invalid block exit detected".
InvalidBlockExit == Exc("InFailedTransactionError", "25P02", "CLIENT")

\* The backend's "current transaction is aborted".
InFailedTransaction == Exc("InFailedTransactionError", "25P02", "SERVER")

\* A configured transaction started inside a block.
ConfiguredInsideBlock == Exc("ActiveTransactionError", "25001", "CLIENT")

\* The backend's "COMMIT PREPARED cannot run inside a transaction block".
CannotRunInsideBlock == Exc("ActiveTransactionError", "25001", "SERVER")

UndefinedObjectError == Exc("UndefinedObjectError", "42704", "SERVER")

\* A recoverable database error raised by a statement of the caller.
UniqueError == Exc("UniqueError", "23505", "SERVER")

\* The backend refusing a savepoint it does not know.
InvalidSavepoint == Exc("InvalidSavepointSpecificationError", "3B001", "SERVER")

\* Transaction control outside of a transaction block.
NoActiveTransaction == Exc("NoActiveTransactionError", "25P01", "SERVER")

\* A gid that is already in use.
DuplicateObjectError == Exc("DuplicateObjectError", "42710", "SERVER")

\* A method called on a transaction object whose state does not allow it.
OperationError == Exc("OperationError", "--OPE", "CLIENT")

\* A Python exception of any kind raised by the caller's own code.
PythonException == Exc("Exception", "", "PYTHON")

-----------------------------------------------------------------------------
\* Statements sent to the backend: the command, the savepoint it names (the
\* transaction object's identity, 0 if none) and the gid it names ("" if none).
Cmd(c, n, g) == [c |-> c, n |-> n, g |-> g]

NoCmd == Cmd("", 0, "")

\* The commands that commit.
CommitCmds == {"COMMIT", "COMMIT PREPARED", "RELEASE"}

\* The commands that roll back.
RollbackCmds == {"ABORT", "ROLLBACK PREPARED", "ROLLBACK TO"}

Gids == {"g1"}

Isolations == {"SERIALIZABLE"}

Modes == {"READ ONLY"}

-----------------------------------------------------------------------------
\* The PostgreSQL backend behind the connection.

\* The transaction's savepoints up to, not including, savepoint n.
Upto(sps, n) ==
  LET i == CHOOSE k \in 1..Len(sps) : sps[k] = n IN SubSeq(sps, 1, i - 1)

Known(sps, n) == \E k \in 1..Len(sps) : sps[k] = n

\* The backend with its transaction block ended; fate says how it ended.
Ended(s, fate) == [s EXCEPT !.status = "I", !.savepoints = <<>>, !.fate = fate]

\* An error inside a transaction block leaves the block failed.
Failing(s) == IF s.status = "I" THEN s ELSE [s EXCEPT !.status = "E"]

Outcome(s, res) == [srv |-> s, res |-> res]

\* A statement other than transaction control: it works or it fails with a
\* database error, and inside a failed transaction it is an error itself.
RunQuery(s) ==
  IF s.status = "E"
  THEN {Outcome(s, InFailedTransaction)}
  ELSE {Outcome(s, NoExc), Outcome(Failing(s), UniqueError)}

RunStart(s) ==
  IF s.status = "I"
  THEN {Outcome([s EXCEPT !.status = "T", !.savepoints = <<>>], NoExc)}
  ELSE {Outcome(s, NoExc)}

RunSavepoint(s, n) ==
  CASE s.status = "T" -> {Outcome([s EXCEPT !.savepoints = Append(@, n)], NoExc)}
    [] s.status = "E" -> {Outcome(s, InFailedTransaction)}
    [] OTHER -> {Outcome(s, NoActiveTransaction)}

\* RELEASE SAVEPOINT that a failed transaction lets pass, as it does COMMIT.
RunReleaseLenient(s, n) ==
  CASE s.status = "I" -> {Outcome(s, NoActiveTransaction)}
    [] Known(s.savepoints, n) ->
         {Outcome([s EXCEPT !.savepoints = Upto(@, n)], NoExc)}
    [] OTHER -> {Outcome(Failing(s), InvalidSavepoint)}

\* RELEASE SAVEPOINT: refused in a failed transaction.
RunRelease(s, n) ==
  CASE s.status = "E" -> {Outcome(s, InFailedTransaction)}
    [] s.status = "I" -> {Outcome(s, NoActiveTransaction)}
    [] Known(s.savepoints, n) ->
         {Outcome([s EXCEPT !.savepoints = Upto(@, n)], NoExc)}
    [] OTHER -> {Outcome(Failing(s), InvalidSavepoint)}

\* ROLLBACK TO SAVEPOINT (and its release): ends the failed state.
RunRollbackTo(s, n) ==
  CASE s.status = "I" -> {Outcome(s, NoActiveTransaction)}
    [] Known(s.savepoints, n) ->
         {Outcome([s EXCEPT !.status = "T", !.savepoints = Upto(@, n)], NoExc)}
    [] OTHER -> {Outcome(Failing(s), InvalidSavepoint)}

\* COMMIT: on a failed transaction the command implies ROLLBACK, without error.
RunCommit(s) ==
  CASE s.status = "T" -> {Outcome(Ended(s, "committed"), NoExc)}
    [] s.status = "E" -> {Outcome(Ended(s, "rolledback"), NoExc)}
    [] OTHER -> {Outcome(s, NoExc)}

RunAbort(s) ==
  IF s.status = "I"
  THEN {Outcome(s, NoExc)}
  ELSE {Outcome(Ended(s, "rolledback"), NoExc)}

RunPrepare(s, g) ==
  CASE s.status = "E" -> {Outcome(Ended(s, "rolledback"), NoExc)}
    [] s.status = "I" -> {Outcome(s, NoExc)}
    [] g \in s.prepared -> {Outcome(Failing(s), DuplicateObjectError)}
    [] OTHER ->
         {Outcome([Ended(s, "prepared") EXCEPT !.prepared = @ \cup {g}], NoExc)}

\* COMMIT PREPARED and ROLLBACK PREPARED cannot run inside a transaction block.
RunFinishPrepared(s, g, fate) ==
  CASE s.status = "E" -> {Outcome(s, InFailedTransaction)}
    [] s.status = "T" -> {Outcome(Failing(s), CannotRunInsideBlock)}
    [] g \in s.prepared ->
         {Outcome([s EXCEPT !.prepared = @ \ {g}, !.fate = fate], NoExc)}
    [] OTHER -> {Outcome(s, UndefinedObjectError)}

\* recover() looks the gid up among the prepared transactions.
RunRecover(s, g) ==
  CASE s.status = "E" -> {Outcome(s, InFailedTransaction)}
    [] g \in s.prepared -> {Outcome(s, NoExc)}
    [] OTHER -> {Outcome(s, UndefinedObjectError)}

\* What the backend may answer to a statement: its next state and the error
\* it reports, NoExc if none.
Backend(s, cmd) ==
  CASE cmd.c = "START TRANSACTION" -> RunStart(s)
    [] cmd.c = "SAVEPOINT" -> RunSavepoint(s, cmd.n)
    [] cmd.c = "RELEASE" -> RunRelease(s, cmd.n)
    [] cmd.c = "ROLLBACK TO" -> RunRollbackTo(s, cmd.n)
    [] cmd.c = "COMMIT" -> RunCommit(s)
    [] cmd.c = "ABORT" -> RunAbort(s)
    [] cmd.c = "PREPARE TRANSACTION" -> RunPrepare(s, cmd.g)
    [] cmd.c = "COMMIT PREPARED" -> RunFinishPrepared(s, cmd.g, "committed")
    [] cmd.c = "ROLLBACK PREPARED" -> RunFinishPrepared(s, cmd.g, "rolledback")
    [] cmd.c = "RECOVER" -> RunRecover(s, cmd.g)
    [] OTHER -> RunQuery(s)

\* The backend after the connection is gone: an open block is rolled back,
\* prepared transactions stay.
Disconnected(s) == IF s.status = "I" THEN s ELSE Ended(s, "rolledback")

-----------------------------------------------------------------------------
\* Transaction objects.

XactStates == {"Unstarted", "Started", "Prepared", "Committed", "RolledBack"}

\* xact(gid = None, isolation = None, mode = None): a transaction reference;
\* creating it does not start it.  "" stands for None.
Xact(gid, isolation, mode) ==
  [gid |-> gid, isolation |-> isolation, mode |-> mode,
   state |-> "Unstarted", type |-> "none"]

\* The configurations the caller uses: none, or one of the three properties.
Configurations ==
  {Xact("", "", "")} \cup {Xact(g, "", "") : g \in Gids}
    \cup {Xact("", i, "") : i \in Isolations} \cup {Xact("", "", m) : m \in Modes}

\* Giving any of the three properties identifies the transaction as a block.
Configured(t) == t.gid # "" \/ t.isolation # "" \/ t.mode # ""

\* What a method does once called: send a statement (and, for start, the type
\* the transaction takes), raise on the client, or finish without a statement.
Send(cmd, type) == [k |-> "send", cmd |-> cmd, type |-> type, err |-> NoExc]

Raise(err) == [k |-> "raise", cmd |-> NoCmd, type |-> "none", err |-> err]

Done == [k |-> "done", cmd |-> NoCmd, type |-> "none", err |-> NoExc]

\* start that takes any transaction started inside a block for a savepoint.
StartUnconfigured(t, n, ts) ==
  IF t.state # "Unstarted" THEN Raise(OperationError)
  ELSE IF ts = "I" THEN Send(Cmd("START TRANSACTION", 0, ""), "block")
  ELSE Send(Cmd("SAVEPOINT", n, ""), "savepoint")

\* start that always begins a block.
StartBlock(t, n, ts) ==
  IF t.state # "Unstarted" THEN Raise(OperationError)
  ELSE Send(Cmd("START TRANSACTION", 0, ""), "block")

\* x.start() of transaction t with identity n, the status byte being ts: a
\* block when no block is running, else a savepoint; a transaction identified
\* as a block cannot start while another block is running.
Start(t, n, ts) ==
  IF t.state # "Unstarted" THEN Raise(OperationError)
  ELSE IF ts = "I" THEN Send(Cmd("START TRANSACTION", 0, ""), "block")
  ELSE IF Configured(t) THEN Raise(ConfiguredInsideBlock)
  ELSE Send(Cmd("SAVEPOINT", n, ""), "savepoint")

\* commit that refuses to run while the connection is in an error state.
CommitGuarded(t, n) ==
  CASE tstatus = "E" -> Raise(InvalidBlockExit)
    [] t.state = "Prepared" -> Send(Cmd("COMMIT PREPARED", 0, t.gid), t.type)
    [] t.state = "Started" /\ t.type = "savepoint" ->
         Send(Cmd("RELEASE", n, ""), t.type)
    [] t.state = "Started" /\ t.gid # "" ->
         Send(Cmd("COMMIT PREPARED", 0, t.gid), t.type)
    [] t.state = "Started" -> Send(Cmd("COMMIT", 0, ""), t.type)
    [] OTHER -> Raise(OperationError)

\* commit that refuses, on the client, a transaction with a gid that was not
\* prepared.
CommitPreparedOnly(t, n) ==
  CASE t.state = "Prepared" -> Send(Cmd("COMMIT PREPARED", 0, t.gid), t.type)
    [] t.state = "Started" /\ t.type = "savepoint" ->
         Send(Cmd("RELEASE", n, ""), t.type)
    [] t.state = "Started" /\ t.gid = "" -> Send(Cmd("COMMIT", 0, ""), t.type)
    [] OTHER -> Raise(OperationError)

\* x.commit(): the transaction object follows instructions and issues the
\* statement, whatever the error state of the connection.
Commit(t, n) ==
  CASE t.state = "Prepared" -> Send(Cmd("COMMIT PREPARED", 0, t.gid), t.type)
    [] t.state = "Started" /\ t.type = "savepoint" ->
         Send(Cmd("RELEASE", n, ""), t.type)
    [] t.state = "Started" /\ t.gid # "" ->
         Send(Cmd("COMMIT PREPARED", 0, t.gid), t.type)
    [] t.state = "Started" -> Send(Cmd("COMMIT", 0, ""), t.type)
    [] OTHER -> Raise(OperationError)

\* rollback that aborts a prepared transaction as it aborts a running one.
RollbackAbort(t, n) ==
  CASE t.state = "Started" /\ t.type = "savepoint" ->
         Send(Cmd("ROLLBACK TO", n, ""), t.type)
    [] t.state \in {"Started", "Prepared"} -> Send(Cmd("ABORT", 0, ""), t.type)
    [] t.state = "Unstarted" -> Done
    [] OTHER -> Raise(OperationError)

\* rollback that does not look for a finished transaction: whatever is not
\* prepared is aborted.
RollbackAny(t, n) ==
  CASE t.state = "Prepared" -> Send(Cmd("ROLLBACK PREPARED", 0, t.gid), t.type)
    [] t.state = "Started" /\ t.type = "savepoint" ->
         Send(Cmd("ROLLBACK TO", n, ""), t.type)
    [] t.state = "Unstarted" -> Done
    [] OTHER -> Send(Cmd("ABORT", 0, ""), "block")

\* rollback that aborts the whole block from inside a savepoint.
RollbackWhole(t, n) ==
  CASE t.state = "Prepared" -> Send(Cmd("ROLLBACK PREPARED", 0, t.gid), t.type)
    [] t.state = "Started" -> Send(Cmd("ABORT", 0, ""), t.type)
    [] t.state = "Unstarted" -> Done
    [] OTHER -> Raise(OperationError)

\* x.rollback(): ABORT before the transaction is prepared, ROLLBACK PREPARED
\* after; a savepoint is rolled back to; a transaction that never started
\* needs no statement.
Rollback(t, n) ==
  CASE t.state = "Prepared" -> Send(Cmd("ROLLBACK PREPARED", 0, t.gid), t.type)
    [] t.state = "Started" /\ t.type = "savepoint" ->
         Send(Cmd("ROLLBACK TO", n, ""), t.type)
    [] t.state = "Started" -> Send(Cmd("ABORT", 0, ""), t.type)
    [] t.state = "Unstarted" -> Done
    [] OTHER -> Raise(OperationError)

\* x.prepare(): PREPARE TRANSACTION, for a started transaction with a gid.
Prepare(t) ==
  IF t.state = "Started" /\ t.type = "block" /\ t.gid # ""
  THEN Send(Cmd("PREPARE TRANSACTION", 0, t.gid), t.type)
  ELSE Raise(OperationError)

\* recover that takes the prepared transaction for granted and does not ask
\* the backend.
RecoverBlind(t) ==
  IF t.state = "Unstarted" /\ t.gid # "" THEN Done ELSE Raise(OperationError)

\* x.recover(): identify the existence of the prepared transaction.
Recover(t) ==
  IF t.state = "Unstarted" /\ t.gid # ""
  THEN Send(Cmd("RECOVER", 0, t.gid), "block")
  ELSE Raise(OperationError)

\* The state a transaction object takes when its method succeeds.
StateAfter(op) ==
  CASE op = "start" -> "Started"
    [] op = "commit" -> "Committed"
    [] op = "rollback" -> "RolledBack"
    [] OTHER -> "Prepared"

Method(op, t, n, ts) ==
  CASE op = "start" -> Start(t, n, ts)
    [] op = "commit" -> Commit(t, n)
    [] op = "rollback" -> Rollback(t, n)
    [] op = "prepare" -> Prepare(t)
    [] OTHER -> Recover(t)

\* __exit__ that takes a running transaction for a failed one.
ExitKindBusy(e, ts) ==
  IF e # NoExc THEN "exc" ELSE IF ts # "I" THEN "failed" ELSE "normal"

\* __exit__: how the block is left, given the propagating exception e and the
\* status byte ts.  "exc": an exception of any kind leaves the block;
\* "failed": no exception, but the connection is in an error state;
\* "normal": neither.
ExitKind(e, ts) ==
  IF e # NoExc THEN "exc" ELSE IF ts = "E" THEN "failed" ELSE "normal"

\* __exit__ that commits unless the connection is in an error state.
ExitMethodCommit(kind) == IF kind = "failed" THEN "rollback" ELSE "commit"

\* __exit__ that looks at the exception alone, not at the error state.
ExitMethodUnguarded(kind) == IF kind = "exc" THEN "rollback" ELSE "commit"

\* __exit__: the method it calls.  Transactions call commit() on exit, unless
\* an exception leaves the block or the connection is in an error state.
ExitMethod(kind) == IF kind = "normal" THEN "commit" ELSE "rollback"

\* The exception that leaves a method: the exception already propagating
\* keeps propagating through __exit__, the invalid block exit is raised by
\* __exit__ in the error state, and otherwise it is the method's own failure.
Raised(kind, orig, res) ==
  CASE kind = "exc" -> orig
    [] kind = "failed" -> InvalidBlockExit
    [] OTHER -> res

-----------------------------------------------------------------------------
\* The connection and its caller.

\* A method call awaiting the backend: the method op of transaction x (0:
\* none), called directly, by __enter__ or by __exit__ (how); for __exit__ the
\* way the block is left (kind); the status byte (pre) and the propagating
\* exception (orig) at the call; the statement sent, and for start the type
\* the transaction takes.
NoCall ==
  [op |-> "none", x |-> 0, how |-> "none", kind |-> "call", pre |-> "I",
   orig |-> NoExc, cmd |-> NoCmd, type |-> "none"]

\* The statement on the wire, NoCmd if none.
Wire == call.cmd

Init ==
  /\ state = "Connecting"
  /\ tstatus = "I"
  /\ srv \in {[status |-> "I", savepoints |-> <<>>, prepared |-> p, fate |-> "none"] :
               p \in SUBSET Gids}
  /\ xacts = <<>>
  /\ ctx = <<>>
  /\ exc = NoExc
  /\ call = NoCall
  /\ CopyIdle
  /\ ElseIdle

\* Establishing the connection: the startup packet is sent.
Startup ==
  /\ state = "Connecting"
  /\ state' = "Authenticating"
  /\ UNCHANGED <<tstatus, srv, xacts, ctx, exc, call>>

\* The backend accepts the credentials.
Authenticate ==
  /\ state = "Authenticating"
  /\ state' = "ParameterNegotiation"
  /\ UNCHANGED <<tstatus, srv, xacts, ctx, exc, call>>

\* The first ready-for-query marker: the connection is established.
Negotiate ==
  /\ state = "ParameterNegotiation"
  /\ state' = "Ready"
  /\ tstatus' = "I"
  /\ UNCHANGED <<srv, xacts, ctx, exc, call>>

\* A connection that starts over when connect() fails.
ConnectFailureRetried ==
  /\ state \in {"Authenticating", "ParameterNegotiation"}
  /\ state' = "Connecting"
  /\ exc' = ConnectionFailureError
  /\ UNCHANGED <<tstatus, srv, xacts, ctx, call>>

\* connect() fails (authentication refused, invalid startup setting): cannot
\* connect failures are terminal.
ConnectFailure ==
  /\ state \in {"Authenticating", "ParameterNegotiation"}
  /\ state' = "Closed"
  /\ exc' = ConnectionFailureError
  /\ UNCHANGED <<tstatus, srv, xacts, ctx, call>>

\* An __exit__ that leaves the with-block only when its method succeeded.
BlocksLeftOnSuccess(c, res) ==
  CASE c.how = "exit" /\ res = NoExc -> SubSeq(ctx, 1, Len(ctx) - 1)
    [] c.how = "enter" /\ res = NoExc -> Append(ctx, c.x)
    [] OTHER -> ctx

\* The with-blocks open once the call c has finished with res: __exit__
\* leaves the innermost, a successful __enter__ opens one.
Blocks(c, res) ==
  CASE c.how = "exit" -> SubSeq(ctx, 1, Len(ctx) - 1)
    [] c.how = "enter" /\ res = NoExc -> Append(ctx, c.x)
    [] OTHER -> ctx

\* The method call c finishes with error res (NoExc: none), leaving the
\* transaction objects as xs.
Finish(c, res, xs) ==
  /\ call' = NoCall
  /\ exc' = Raised(c.kind, c.orig, res)
  /\ ctx' = Blocks(c, res)
  /\ xacts' = xs

\* The transaction objects after the method of the call c succeeded.
Succeeded(c) ==
  IF c.x = 0 THEN xacts
  ELSE [xacts EXCEPT ![c.x].state = StateAfter(c.op), ![c.x].type = c.type]

\* Invoke without the check for a closed connection: the method goes on and
\* sends its statement.
InvokeUnchecked(op, x, how, kind) ==
  LET plan == IF op = "execute" THEN Send(Cmd("QUERY", 0, ""), "none")
              ELSE Method(op, xacts[x], x, tstatus)
      c == [op |-> op, x |-> x, how |-> how, kind |-> kind, pre |-> tstatus,
            orig |-> exc, cmd |-> plan.cmd, type |-> plan.type]
  IN
  /\ state \in {"Ready", "Closed"}
  /\ IF plan.k = "send"
     THEN /\ call' = c
          /\ state' = "Busy"
          /\ UNCHANGED <<tstatus, srv, xacts, ctx, exc>>
     ELSE /\ Finish(c, plan.err, IF plan.k = "done" THEN Succeeded(c) ELSE xacts)
          /\ UNCHANGED <<state, tstatus, srv>>

\* Invoke that tracks the transaction state on its own: the status is taken
\* to be in-transaction as soon as START TRANSACTION is sent.
InvokeEager(op, x, how, kind) ==
  LET plan == IF op = "execute" THEN Send(Cmd("QUERY", 0, ""), "none")
              ELSE Method(op, xacts[x], x, tstatus)
      c == [op |-> op, x |-> x, how |-> how, kind |-> kind, pre |-> tstatus,
            orig |-> exc, cmd |-> plan.cmd, type |-> plan.type]
  IN
  /\ state \in {"Ready", "Closed"}
  /\ IF state = "Closed"
     THEN /\ Finish(c, ConnectionDoesNotExistError, xacts)
          /\ UNCHANGED <<state, tstatus, srv>>
     ELSE IF plan.k = "send"
     THEN /\ call' = c
          /\ state' = "Busy"
          /\ tstatus' = IF plan.cmd.c = "START TRANSACTION" THEN "T" ELSE tstatus
          /\ UNCHANGED <<srv, xacts, ctx, exc>>
     ELSE /\ Finish(c, plan.err, IF plan.k = "done" THEN Succeeded(c) ELSE xacts)
          /\ UNCHANGED <<state, tstatus, srv>>

\* Calling a method.  On a closed connection it raises
\* ConnectionDoesNotExistError; otherwise it raises on the client, finishes
\* without a statement, or sends its statement and awaits the backend.
Invoke(op, x, how, kind) ==
  LET plan == IF op = "execute" THEN Send(Cmd("QUERY", 0, ""), "none")
              ELSE Method(op, xacts[x], x, tstatus)
      c == [op |-> op, x |-> x, how |-> how, kind |-> kind, pre |-> tstatus,
            orig |-> exc, cmd |-> plan.cmd, type |-> plan.type]
  IN
  /\ state \in {"Ready", "Closed"}
  /\ IF state = "Closed"
     THEN /\ Finish(c, ConnectionDoesNotExistError, xacts)
          /\ UNCHANGED <<state, tstatus, srv>>
     ELSE IF plan.k = "send"
     THEN /\ call' = c
          /\ state' = "Busy"
          /\ UNCHANGED <<tstatus, srv, xacts, ctx, exc>>
     ELSE /\ Finish(c, plan.err, IF plan.k = "done" THEN Succeeded(c) ELSE xacts)
          /\ UNCHANGED <<state, tstatus, srv>>

\* The backend answers the statement and sends ready-for-query with the
\* transaction-status byte; the method finishes.
ServerReply ==
  /\ state = "Busy"
  /\ \E o \in Backend(srv, call.cmd) :
       /\ srv' = o.srv
       /\ tstatus' = o.srv.status
       /\ Finish(call, o.res, IF o.res = NoExc THEN Succeeded(call) ELSE xacts)
  /\ state' = "Ready"

\* The connection is lost.  A method awaiting the backend fails, whether or
\* not the backend had run its statement.
ConnectionLost ==
  /\ state # "Closed"
  /\ state' = "Closed"
  /\ IF state = "Busy"
     THEN /\ \E s \in {srv} \cup {o.srv : o \in Backend(srv, call.cmd)} :
               srv' = Disconnected(s)
          /\ Finish(call, ConnectionFailureError, xacts)
     ELSE /\ srv' = Disconnected(srv)
          /\ UNCHANGED <<xacts, ctx, exc, call>>
  /\ UNCHANGED tstatus

\* db.close()
Close ==
  /\ exc = NoExc
  /\ state = "Ready"
  /\ state' = "Closed"
  /\ srv' = Disconnected(srv)
  /\ UNCHANGED <<tstatus, xacts, ctx, exc, call>>

\* db.xact(gid, isolation, mode)
NewXact ==
  /\ exc = NoExc
  /\ state = "Ready"
  /\ Len(xacts) < MaxXacts
  /\ \E t \in Configurations : xacts' = Append(xacts, t)
  /\ UNCHANGED <<state, tstatus, srv, ctx, exc, call>>

InBlock(x) == \E k \in 1..Len(ctx) : ctx[k] = x

Methods == {"start", "commit", "rollback", "prepare", "recover"}

\* x.start(), x.commit(), x.rollback(), x.prepare(), x.recover() called
\* directly.
Direct(op, x) ==
  /\ exc = NoExc
  /\ ~InBlock(x) \/ op = "prepare"
  /\ Invoke(op, x, "direct", "call")

Call == \E x \in 1..Len(xacts), op \in Methods : Direct(op, x)

\* db.execute(sql)
Execute ==
  /\ exc = NoExc
  /\ Invoke("execute", 0, "direct", "call")

\* with x: __enter__ starts the transaction.
EnterBlock(x) ==
  /\ exc = NoExc
  /\ ~InBlock(x)
  /\ Invoke("start", x, "enter", "call")

Enter == \E x \in 1..Len(xacts) : EnterBlock(x)

\* How the innermost with-block is left now.
Leaving ==
  IF state = "Closed" /\ exc = NoExc THEN "normal" ELSE ExitKind(exc, tstatus)

\* The innermost with-block is left: __exit__.
Exit ==
  /\ ctx # <<>>
  /\ Invoke(ExitMethod(Leaving), ctx[Len(ctx)], "exit", Leaving)

\* The caller's own code raises inside a with-block.
PyRaise ==
  /\ exc = NoExc
  /\ state \in {"Ready", "Closed"}
  /\ ctx # <<>>
  /\ exc' = PythonException
  /\ UNCHANGED <<state, tstatus, srv, xacts, ctx, call>>

\* The caller traps the propagating exception (try ... except), inside or
\* outside of a with-block.
Catch ==
  /\ exc # NoExc
  /\ state \in {"Ready", "Closed"}
  /\ exc' = NoExc
  /\ UNCHANGED <<state, tstatus, srv, xacts, ctx, call>>

\* The transactions of a block with its savepoints.
MaxNested == 3

\* db.xact(): a transaction without configuration.
NewPlainXact ==
  /\ exc = NoExc
  /\ state = "Ready"
  /\ Len(xacts) < MaxNested
  /\ xacts' = Append(xacts, Xact("", "", ""))
  /\ UNCHANGED <<state, tstatus, srv, ctx, exc, call>>

\* The connection and its unconfigured transactions: blocks and savepoints.
NestedNext ==
  \/ Startup /\ UNCHANGED <<cvars, evars>>
  \/ Authenticate /\ UNCHANGED <<cvars, evars>>
  \/ Negotiate /\ UNCHANGED <<cvars, evars>>
  \/ ServerReply /\ UNCHANGED <<cvars, evars>>
  \/ NewPlainXact /\ UNCHANGED <<cvars, evars>>
  \/ Call /\ UNCHANGED <<cvars, evars>>
  \/ Execute /\ UNCHANGED <<cvars, evars>>
  \/ Enter /\ UNCHANGED <<cvars, evars>>
  \/ Exit /\ UNCHANGED <<cvars, evars>>
  \/ PyRaise /\ UNCHANGED <<cvars, evars>>
  \/ Catch /\ UNCHANGED <<cvars, evars>>

NestedSpec == Init /\ [][NestedNext]_vars

\* The connection and its transactions; no COPY takes place.
Next ==
  \/ Startup /\ UNCHANGED <<cvars, evars>>
  \/ Authenticate /\ UNCHANGED <<cvars, evars>>
  \/ Negotiate /\ UNCHANGED <<cvars, evars>>
  \/ ConnectFailure /\ UNCHANGED <<cvars, evars>>
  \/ ServerReply /\ UNCHANGED <<cvars, evars>>
  \/ ConnectionLost /\ UNCHANGED <<cvars, evars>>
  \/ Close /\ UNCHANGED <<cvars, evars>>
  \/ NewXact /\ UNCHANGED <<cvars, evars>>
  \/ Call /\ UNCHANGED <<cvars, evars>>
  \/ Execute /\ UNCHANGED <<cvars, evars>>
  \/ Enter /\ UNCHANGED <<cvars, evars>>
  \/ Exit /\ UNCHANGED <<cvars, evars>>
  \/ PyRaise /\ UNCHANGED <<cvars, evars>>
  \/ Catch /\ UNCHANGED <<cvars, evars>>

Spec == Init /\ [][Next]_vars

\* Types.
TypeOK ==
  /\ state \in SessionStates
  /\ tstatus \in StatusBytes
  /\ srv.status \in StatusBytes
  /\ Len(xacts) <= MaxXacts
  /\ \A x \in 1..Len(xacts) : xacts[x].state \in XactStates
  /\ (call = NoCall) = (state # "Busy")

-----------------------------------------------------------------------------
\* COPY statements on the connection, outside of transaction blocks:
\* ps.load(records) of a COPY ... FROM STDIN statement, ps.rows() or
\* ps.chunks() of a COPY ... TO STDOUT statement with the iterator they
\* return, and db.execute(sql) as the other action on the connection.

\* The records a COPY transfers: bytes objects.
Records == {"a", "b"}

\* The number of records one load() is given.
MaxRecs == 2

\* The number of requests the caller makes.
MaxOps == 3

SubModes == {"none", "executing", "copy-in", "copy-out"}

\* The statement methods: load() of a COPY FROM STDIN statement, rows() of a
\* COPY TO STDOUT statement, execute() of any other statement.
Tasks == {"load", "rows", "execute"}

\* The sequences of at most n elements of S.
SeqsUpTo(S, n) == UNION {[1..k -> S] : k \in 0..n}

\* Messages of the client: Execute of a statement, and the COPY messages.
Msg(m, d) == [m |-> m, d |-> d]
ExecuteMsg(t) ==
  Msg("Execute", CASE t = "load" -> "COPY FROM STDIN"
                   [] t = "rows" -> "COPY TO STDOUT"
                   [] OTHER -> "QUERY")
CopyData(r) == Msg("CopyData", r)
CopyDone == Msg("CopyDone", "")
CopyFail == Msg("CopyFail", "")

\* The error of a COPY that was interrupted: reported by the backend.
CopyFailure == Exc("QueryCanceledError", "57014", "SERVER")

\* The records of the CopyData messages among ms, in order.
RECURSIVE DataOf(_)
DataOf(ms) ==
  IF ms = <<>> THEN <<>>
  ELSE IF Head(ms).m = "CopyData" THEN <<Head(ms).d>> \o DataOf(Tail(ms))
  ELSE DataOf(Tail(ms))

\* The last message of ms is m.
Last(ms, m) == ms # <<>> /\ ms[Len(ms)] = m

\* A request that takes the wire while the previous one is still answered.
MaySendPipelined(m) == m \in {"none", "copy-out"}

\* A request may take the wire once no sub-protocol is active: the COPY
\* should be completed before other actions take place.
MaySend(m) == m = "none"

\* load() that finishes the COPY one record early.
NextCopyMessageShort(recs, ms) ==
  LET k == Len(DataOf(ms))
  IN IF k + 1 < Len(recs) THEN CopyData(recs[k + 1]) ELSE CopyDone

\* load(): the message that follows the messages ms of a COPY FROM STDIN
\* given recs: the next record, and CopyDone after the last.
NextCopyMessage(recs, ms) ==
  LET k == Len(DataOf(ms))
  IN IF k < Len(recs) THEN CopyData(recs[k + 1]) ELSE CopyDone

\* An interruption that completes the COPY with the records sent so far.
InterruptCompleting(ms) == Append(ms, CopyDone)

\* Another action during a COPY FROM STDIN: the connection state is managed
\* so that the COPY fails.
Interrupt(ms) == Append(ms, CopyFail)

\* The sub-mode taken at once by the method that sends the statement,
\* without waiting for the backend's reply.
RequestModeEager(t) ==
  CASE t = "load" -> "copy-in"
    [] t = "rows" -> "copy-out"
    [] OTHER -> "executing"

\* The sub-mode the Session takes when a statement is sent.
RequestMode(t) == "executing"

\* The sub-mode the Session takes on the backend's reply to an executed
\* statement.
ReplyMode(t, reply) ==
  CASE reply = "CopyInResponse" -> "copy-in"
    [] reply = "CopyOutResponse" -> "copy-out"
    [] OTHER -> "none"

\* The backend's reply to a statement.
ReplyTo(msg) ==
  CASE msg.d = "COPY FROM STDIN" -> "CopyInResponse"
    [] msg.d = "COPY TO STDOUT" -> "CopyOutResponse"
    [] OTHER -> "ReadyForQuery"

\* A statement method is called: ps.load(recs), ps.rows(), db.execute(sql).
\* On a closed connection it raises at once.  rows() is not called while an
\* iterator over an earlier COPY is still in use.
CopyCall ==
  /\ exc = NoExc
  /\ task = "none"
  /\ issued < MaxOps
  /\ \/ state \in {"Ready", "Closed"}
     \/ state = "Busy" /\ submode = "copy-out"
  /\ \E t \in Tasks, recs \in SeqsUpTo(Records, MaxRecs) :
       /\ t = "load" \/ recs = <<>>
       /\ t = "rows" => iter # "open"
       /\ issued' = issued + 1
       /\ IF state = "Closed"
          THEN /\ exc' = ConnectionDoesNotExistError
               /\ UNCHANGED <<task, input, sent>>
          ELSE /\ task' = t
               /\ input' = recs
               /\ sent' = <<>>
               /\ UNCHANGED exc
  /\ UNCHANGED <<state, tstatus, srv, xacts, ctx, call, submode, log, table,
                 srvout, iter, buf, got>>

\* Ready-for-query is observed: the Session leaves Busy and the
\* transaction-status byte is refreshed.
ReadyForQuery ==
  /\ state' = "Ready"
  /\ submode' = "none"
  /\ tstatus' = srv.status

\* A method called during a COPY TO STDOUT that throws the rest of the COPY
\* away instead of keeping it for the iterator.
DrainDiscard ==
  /\ task # "none" /\ sent = <<>>
  /\ submode = "copy-out" /\ srvout # <<>>
  /\ srvout' = Tail(srvout)
  /\ UNCHANGED <<state, tstatus, srv, xacts, ctx, exc, call, submode, task,
                 input, sent, issued, log, table, iter, buf, got>>

\* The method called during a COPY TO STDOUT reads a record of the COPY into
\* the iterator's buffer.
DrainData ==
  /\ task # "none" /\ sent = <<>>
  /\ submode = "copy-out" /\ srvout # <<>>
  /\ buf' = Append(buf, Head(srvout))
  /\ srvout' = Tail(srvout)
  /\ UNCHANGED <<state, tstatus, srv, xacts, ctx, exc, call, submode, task,
                 input, sent, issued, log, table, iter, got>>

\* The method called during a COPY TO STDOUT has read the entire result: the
\* COPY is complete.
DrainEnd ==
  /\ task # "none" /\ sent = <<>>
  /\ submode = "copy-out" /\ srvout = <<>>
  /\ ReadyForQuery
  /\ UNCHANGED <<srv, xacts, ctx, exc, call, task, input, sent, issued, log,
                 table, srvout, iter, buf, got>>

\* The method sends its statement.
SendRequest ==
  /\ task # "none" /\ sent = <<>>
  /\ state \in {"Ready", "Busy"}
  /\ MaySend(submode)
  /\ sent' = <<ExecuteMsg(task)>>
  /\ log' = Append(log, issued)
  /\ state' = "Busy"
  /\ submode' = RequestMode(task)
  /\ UNCHANGED <<tstatus, srv, xacts, ctx, exc, call, task, input, issued,
                 table, srvout, iter, buf, got>>

\* The backend answers db.execute(sql): ready-for-query.
ExecuteReply ==
  /\ task = "execute" /\ submode = "executing" /\ sent = <<ExecuteMsg(task)>>
  /\ ReadyForQuery
  /\ task' = "none"
  /\ UNCHANGED <<srv, xacts, ctx, exc, call, input, sent, issued, log, table,
                 srvout, iter, buf, got>>

\* The backend answers the COPY FROM STDIN statement: CopyInResponse.
CopyInResponse ==
  /\ task = "load" /\ submode = "executing" /\ sent = <<ExecuteMsg(task)>>
  /\ submode' = ReplyMode(task, ReplyTo(sent[1]))
  /\ UNCHANGED <<state, tstatus, srv, xacts, ctx, exc, call, task, input,
                 sent, issued, log, table, srvout, iter, buf, got>>

\* The backend answers the COPY TO STDOUT statement: CopyOutResponse.  rows()
\* returns the iterator.
CopyOutResponse ==
  /\ task = "rows" /\ submode = "executing" /\ sent = <<ExecuteMsg(task)>>
  /\ submode' = ReplyMode(task, ReplyTo(sent[1]))
  /\ srvout' = table
  /\ iter' = "open"
  /\ buf' = <<>>
  /\ got' = <<>>
  /\ task' = "none"
  /\ UNCHANGED <<state, tstatus, srv, xacts, ctx, exc, call, input, sent,
                 issued, log, table>>

\* load() writes the next message of the COPY: a record, or CopyDone after
\* the last.
SendCopyMessage ==
  /\ task = "load" /\ submode = "copy-in"
  /\ LET msg == NextCopyMessage(input, sent)
     IN /\ sent' = Append(sent, msg)
        /\ submode' = IF msg = CopyDone THEN "executing" ELSE "copy-in"
  /\ UNCHANGED <<state, tstatus, srv, xacts, ctx, exc, call, task, input,
                 issued, log, table, srvout, iter, buf, got>>

\* The backend completes the COPY FROM STDIN: the records it received are in
\* the table, and load() returns.
CopyInComplete ==
  /\ task = "load" /\ submode = "executing" /\ Last(sent, CopyDone)
  /\ table' = table \o DataOf(sent)
  /\ ReadyForQuery
  /\ task' = "none"
  /\ UNCHANGED <<srv, xacts, ctx, exc, call, input, sent, issued, log,
                 srvout, iter, buf, got>>

\* The iterable given to load() invokes another action on the connection
\* while the COPY FROM STDIN is running.
CopyInInterrupted ==
  /\ task = "load" /\ submode = "copy-in"
  /\ issued < MaxOps
  /\ issued' = issued + 1
  /\ task' = "execute"
  /\ sent' = Interrupt(sent)
  /\ UNCHANGED <<state, tstatus, srv, xacts, ctx, exc, call, submode, input,
                 log, table, srvout, iter, buf, got>>

\* The backend fails the interrupted COPY FROM STDIN: nothing is loaded and
\* its error is raised.
CopyInFailed ==
  /\ submode = "copy-in" /\ Last(sent, CopyFail)
  /\ ReadyForQuery
  /\ exc' = CopyFailure
  /\ task' = "none"
  /\ UNCHANGED <<srv, xacts, ctx, call, input, sent, issued, log, table,
                 srvout, iter, buf, got>>

\* An iterator that takes the end of the COPY for the end of the records: the
\* last record read from the connection is not handed out.
NextRecordShort ==
  /\ exc = NoExc
  /\ task = "none"
  /\ iter = "open"
  /\ CASE buf # <<>> ->
            /\ got' = Append(got, Head(buf))
            /\ buf' = Tail(buf)
            /\ UNCHANGED <<state, tstatus, submode, srvout, iter>>
       [] buf = <<>> /\ submode = "copy-out" /\ Len(srvout) > 1 ->
            /\ got' = Append(got, Head(srvout))
            /\ srvout' = Tail(srvout)
            /\ UNCHANGED <<state, tstatus, submode, iter, buf>>
       [] buf = <<>> /\ submode = "copy-out" /\ Len(srvout) <= 1 ->
            /\ ReadyForQuery
            /\ iter' = "done"
            /\ srvout' = <<>>
            /\ UNCHANGED <<buf, got>>
       [] OTHER ->
            /\ iter' = "done"
            /\ UNCHANGED <<state, tstatus, submode, srvout, buf, got>>
  /\ UNCHANGED <<srv, xacts, ctx, exc, call, task, input, sent, issued, log,
                 table>>

\* An iterator that knows the connection only: records that another action
\* had read are not handed out.
NextRecordUnbuffered ==
  /\ exc = NoExc
  /\ task = "none"
  /\ iter = "open"
  /\ CASE submode = "copy-out" /\ srvout # <<>> ->
            /\ got' = Append(got, Head(srvout))
            /\ srvout' = Tail(srvout)
            /\ UNCHANGED <<state, tstatus, submode, iter, buf>>
       [] submode = "copy-out" /\ srvout = <<>> ->
            /\ ReadyForQuery
            /\ iter' = "done"
            /\ UNCHANGED <<srvout, buf, got>>
       [] OTHER ->
            /\ iter' = "done"
            /\ UNCHANGED <<state, tstatus, submode, srvout, buf, got>>
  /\ UNCHANGED <<srv, xacts, ctx, exc, call, task, input, sent, issued, log,
                 table>>

\* next(iterator): the caller takes the next record of the COPY TO STDOUT,
\* from the buffer if another action had the result read, else from the
\* connection; after the last record the COPY is complete and the iterator
\* is exhausted.
NextRecord ==
  /\ exc = NoExc
  /\ task = "none"
  /\ iter = "open"
  /\ CASE buf # <<>> ->
            /\ got' = Append(got, Head(buf))
            /\ buf' = Tail(buf)
            /\ UNCHANGED <<state, tstatus, submode, srvout, iter>>
       [] buf = <<>> /\ submode = "copy-out" /\ srvout # <<>> ->
            /\ got' = Append(got, Head(srvout))
            /\ srvout' = Tail(srvout)
            /\ UNCHANGED <<state, tstatus, submode, iter, buf>>
       [] buf = <<>> /\ submode = "copy-out" /\ srvout = <<>> ->
            /\ ReadyForQuery
            /\ iter' = "done"
            /\ UNCHANGED <<srvout, buf, got>>
       [] OTHER ->
            /\ iter' = "done"
            /\ UNCHANGED <<state, tstatus, submode, srvout, buf, got>>
  /\ UNCHANGED <<srv, xacts, ctx, exc, call, task, input, sent, issued, log,
                 table>>

\* The connection is lost during the COPY traffic.  The running method
\* fails; a COPY FROM STDIN that was finished may or may not have been
\* completed by the backend; the rest of a COPY TO STDOUT is lost with the
\* connection.
CopyLost ==
  /\ state \in {"Ready", "Busy"}
  /\ state' = "Closed"
  /\ submode' = "none"
  /\ task' = "none"
  /\ exc' = IF task # "none" THEN ConnectionFailureError ELSE exc
  /\ srvout' = <<>>
  /\ iter' = IF submode = "copy-out" THEN "lost" ELSE iter
  /\ \/ table' = table
     \/ /\ submode = "executing" /\ Last(sent, CopyDone)
        /\ table' = table \o DataOf(sent)
  /\ UNCHANGED <<tstatus, srv, xacts, ctx, call, input, sent, issued, log,
                 buf, got>>

\* The connection and its COPY statements; no transaction takes place.
CopyNext ==
  \/ Startup /\ UNCHANGED <<cvars, evars>>
  \/ Authenticate /\ UNCHANGED <<cvars, evars>>
  \/ Negotiate /\ UNCHANGED <<cvars, evars>>
  \/ ConnectFailure /\ UNCHANGED <<cvars, evars>>
  \/ Catch /\ UNCHANGED <<cvars, evars>>
  \/ CopyCall /\ UNCHANGED evars
  \/ DrainData /\ UNCHANGED evars
  \/ DrainEnd /\ UNCHANGED evars
  \/ SendRequest /\ UNCHANGED evars
  \/ ExecuteReply /\ UNCHANGED evars
  \/ CopyInResponse /\ UNCHANGED evars
  \/ CopyOutResponse /\ UNCHANGED evars
  \/ SendCopyMessage /\ UNCHANGED evars
  \/ CopyInComplete /\ UNCHANGED evars
  \/ CopyInInterrupted /\ UNCHANGED evars
  \/ CopyInFailed /\ UNCHANGED evars
  \/ NextRecord /\ UNCHANGED evars
  \/ CopyLost /\ UNCHANGED evars

CopySpec == Init /\ [][CopyNext]_vars

CopyTypeOK ==
  /\ state \in SessionStates
  /\ submode \in SubModes
  /\ task \in Tasks \cup {"none"}
  /\ iter \in {"none", "open", "done", "lost"}
  /\ issued \in 0..MaxOps
  /\ (state = "Busy") = (submode # "none")

-----------------------------------------------------------------------------
\* copyin.load(copyout.chunks()): a COPY TO STDOUT on a source connection
\* piped into a COPY FROM STDIN on a destination connection.  pipe.source
\* are the records the source has yet to produce, pipe.held the chunks
\* load() has got and not yet written in full, pipe.dest the records written
\* to the destination, pipe.all the source's whole result.

\* The number of records of the source's result.
MaxSource == 3

\* The chunksize given to chunks().
MaxChunk == 2

\* The records of the chunks cs, in order.
RECURSIVE Flatten(_)
Flatten(cs) == IF cs = <<>> THEN <<>> ELSE Head(cs) \o Flatten(Tail(cs))

\* The smaller of two numbers.
Min(a, b) == IF a < b THEN a ELSE b

\* load() that gets the next chunk while the last one is still being written.
MayRequestAhead(held) == Len(held) <= 1

\* load() gets another chunk only when the chunk it had was written in full.
MayRequest(held) == held = <<>>

\* copyin.load(copyout.chunks()) is called.
PipeStart ==
  /\ pipe.pc = "none"
  /\ \E recs \in SeqsUpTo(Records, MaxSource), n \in 1..MaxChunk :
       pipe' = [pc |-> "copying", size |-> n, source |-> recs, held |-> <<>>,
                dest |-> <<>>, all |-> recs]
  /\ UNCHANGED <<state, tstatus, srv, xacts, ctx, exc, call, cvars, curs, stm, xvars>>

\* load() gets the next chunk from chunks(): at most chunksize records of
\* the source.
NextChunk ==
  /\ pipe.pc = "copying"
  /\ pipe.source # <<>>
  /\ MayRequest(pipe.held)
  /\ LET n == Min(pipe.size, Len(pipe.source))
     IN pipe' = [pipe EXCEPT
                   !.held = Append(@, SubSeq(pipe.source, 1, n)),
                   !.source = SubSeq(@, n + 1, Len(@))]
  /\ UNCHANGED <<state, tstatus, srv, xacts, ctx, exc, call, cvars, curs, stm, xvars>>

\* load() writes the next record of the chunk it holds to the destination;
\* with its last record the chunk is written in full.
WriteRecord ==
  /\ pipe.pc = "copying"
  /\ pipe.held # <<>>
  /\ LET chunk == Head(pipe.held)
     IN pipe' = [pipe EXCEPT
                   !.dest = Append(@, Head(chunk)),
                   !.held = IF Len(chunk) = 1 THEN Tail(@)
                            ELSE <<Tail(chunk)>> \o Tail(@)]
  /\ UNCHANGED <<state, tstatus, srv, xacts, ctx, exc, call, cvars, curs, stm, xvars>>

\* chunks() is exhausted and everything was written: load() completes the
\* COPY and returns.
PipeDone ==
  /\ pipe.pc = "copying"
  /\ pipe.source = <<>> /\ pipe.held = <<>>
  /\ pipe' = [pipe EXCEPT !.pc = "done"]
  /\ UNCHANGED <<state, tstatus, srv, xacts, ctx, exc, call, cvars, curs, stm, xvars>>

\* One of the two connections is lost: the transfer ends where it is.
PipeLost ==
  /\ pipe.pc = "copying"
  /\ pipe' = [pipe EXCEPT !.pc = "lost"]
  /\ UNCHANGED <<state, tstatus, srv, xacts, ctx, exc, call, cvars, curs, stm, xvars>>

\* A transfer between a source and a destination connection.
PipeNext ==
  \/ PipeStart
  \/ NextChunk
  \/ WriteRecord
  \/ PipeDone
  \/ PipeLost

PipeSpec == Init /\ [][PipeNext]_vars

\* Scrollable cursors.  Two cursors are declared over the same curs.n rows:
\* C over an ordering, with the default direction, and R over the reverse
\* ordering, with its direction property set to 'BACKWARD'.  Every read and
\* seek is made on both with the same arguments.  curs.pos is the position
\* of each cursor on the backend: 0 before the first row, k on row k,
\* curs.n + 1 after the last row; curs.res is what the last read returned,
\* curs.held the rows the client got and did not return, curs.req the last
\* call.

\* The number of rows of a cursor.
MaxRows == 3

\* The quantity given to read().
MaxRead == 2

\* The position given to seek().
MaxSeek == 4

Cursors == {"C", "R"}

\* The direction property of the cursors: True, the default, is forward.
Direction(c) == c = "C"

\* The rows of the cursors: R holds the rows of C in reverse order.
Rows(c, N) == IF c = "C" THEN [i \in 1..N |-> i] ELSE [i \in 1..N |-> N + 1 - i]

\* What read() accepts as direction, None standing for no argument, and
\* what seek() accepts as whence.
DirectionArgs == {"None", "FORWARD", "True", "BACKWARD", "False"}
WhenceArgs == {"0", "ABSOLUTE", "1", "RELATIVE", "2", "FROM_END"}

\* The larger of two numbers.
Max(a, b) == IF a > b THEN a ELSE b

\* The position at the end of a cursor of N rows, taken to be its last row.
EndOnLast(N) == N

\* The position at the end of a cursor of N rows: after its last row.
End(N) == N + 1

\* A backend that gives one row for each FETCH, however many are asked.
FetchOneRow(rows, pos, q, forward) ==
  LET N == Len(rows)
  IN IF forward
     THEN [rows |-> [i \in 1..Max(0, Min(1, N - pos)) |-> rows[pos + i]],
           pos |-> IF pos + 1 <= N THEN pos + 1 ELSE N + 1]
     ELSE [rows |-> [i \in 1..Max(0, Min(1, pos - 1)) |-> rows[pos - i]],
           pos |-> IF pos - 1 >= 1 THEN pos - 1 ELSE 0]

\* The backend, FETCH FORWARD q / FETCH BACKWARD q at position pos: the rows
\* passed over, and the position reached; past the last row in the direction
\* the cursor is left beyond it.
Fetch(rows, pos, q, forward) ==
  LET N == Len(rows)
  IN IF forward
     THEN [rows |-> [i \in 1..Max(0, Min(q, N - pos)) |-> rows[pos + i]],
           pos |-> IF pos + q <= N THEN pos + q ELSE N + 1]
     ELSE [rows |-> [i \in 1..Max(0, Min(q, pos - 1)) |-> rows[pos - i]],
           pos |-> IF pos - q >= 1 THEN pos - q ELSE 0]

\* The backend, MOVE: to an absolute position, by a relative offset, or to
\* the end and then backwards.
Move(N, pos, p, whence) ==
  CASE whence = "ABSOLUTE" -> IF p <= N THEN p ELSE N + 1
    [] whence = "RELATIVE" ->
         IF p >= 0 THEN (IF pos + p <= N THEN pos + p ELSE N + 1)
         ELSE (IF pos + p >= 1 THEN pos + p ELSE 0)
    [] OTHER -> IF End(N) - p >= 1 THEN End(N) - p ELSE 0

\* read() that takes its direction argument as it is, whatever the direction
\* property.
FetchForwardPlain(direction, arg) == arg \in {"None", "FORWARD", "True"}

\* read(quantity, direction): whether the fetch is forward.  'FORWARD' or
\* True fetch forward and 'BACKWARD' or False backward; with the direction
\* property set to backward, the default is to fetch backward and 'BACKWARD'
\* ultimately causes a forward fetch.
FetchForward(direction, arg) ==
  (arg \in {"None", "FORWARD", "True"}) = direction

\* seek(position, whence): the whence, numeric or textual.
Whence(w) ==
  CASE w \in {"0", "ABSOLUTE"} -> "ABSOLUTE"
    [] w \in {"1", "RELATIVE"} -> "RELATIVE"
    [] OTHER -> "FROM_END"

\* seek() with the direction property set to backward is inverted, to
\* simulate a reversely ordered cursor: from the beginning becomes from the
\* end, and forwards becomes backwards.
SeekAs(direction, p, whence) ==
  IF direction THEN [p |-> p, whence |-> whence]
  ELSE CASE whence = "ABSOLUTE" -> [p |-> p, whence |-> "FROM_END"]
         [] whence = "RELATIVE" -> [p |-> 0 - p, whence |-> "RELATIVE"]
         [] OTHER -> [p |-> p, whence |-> "ABSOLUTE"]

\* A cursor that fetches one row more than asked, to have it at hand.
FetchQuantityAhead(n) == n + 1

\* The quantity read(n) fetches: scrollable cursors never pre-fetch.
FetchQuantity(n) == n

\* ps.declare() on both statements; reverse_c.direction = 'BACKWARD'.
Declare ==
  /\ state = "Ready"
  /\ curs.pc = "none"
  /\ \E N \in 0..MaxRows : curs' = [NoCursors EXCEPT !.pc = "open", !.n = N]
  /\ UNCHANGED <<state, tstatus, srv, xacts, ctx, exc, call, cvars, pipe, stm, xvars>>

\* c.read(n, d) and reverse_c.read(n, d).
Read(n, d) ==
  /\ curs.pc = "open"
  /\ LET fetched(c) == Fetch(Rows(c, curs.n), curs.pos[c], FetchQuantity(n),
                             FetchForward(Direction(c), d))
     IN curs' = [curs EXCEPT
                   !.pos = [c \in Cursors |-> fetched(c).pos],
                   !.res = [c \in Cursors |->
                              SubSeq(fetched(c).rows, 1, Min(n, Len(fetched(c).rows)))],
                   !.held = [c \in Cursors |->
                               SubSeq(fetched(c).rows, Min(n, Len(fetched(c).rows)) + 1,
                                      Len(fetched(c).rows))],
                   !.req = [op |-> "read", n |-> n, arg |-> d]]
  /\ UNCHANGED <<state, tstatus, srv, xacts, ctx, exc, call, cvars, pipe, stm, xvars>>

\* c.seek(p, w) and reverse_c.seek(p, w).
Seek(p, w) ==
  /\ curs.pc = "open"
  /\ LET as(c) == SeekAs(Direction(c), p, Whence(w))
     IN curs' = [curs EXCEPT
                   !.pos = [c \in Cursors |->
                              Move(curs.n, curs.pos[c], as(c).p, as(c).whence)],
                   !.req = [op |-> "seek", n |-> p, arg |-> w]]
  /\ UNCHANGED <<state, tstatus, srv, xacts, ctx, exc, call, cvars, pipe, stm, xvars>>

ReadAny == \E n \in 1..MaxRead, d \in DirectionArgs : Read(n, d)

SeekAny ==
  \E p \in (0 - MaxSeek)..MaxSeek, w \in WhenceArgs :
    /\ p >= 0 \/ Whence(w) = "RELATIVE"
    /\ Seek(p, w)

\* c.close() and reverse_c.close()
CloseCursors ==
  /\ curs.pc = "open"
  /\ curs' = NoCursors
  /\ UNCHANGED <<state, tstatus, srv, xacts, ctx, exc, call, cvars, pipe, stm, xvars>>

\* The connection and its scrollable cursors.
CursorNext ==
  \/ Startup /\ UNCHANGED <<cvars, evars>>
  \/ Authenticate /\ UNCHANGED <<cvars, evars>>
  \/ Negotiate /\ UNCHANGED <<cvars, evars>>
  \/ Declare
  \/ ReadAny
  \/ SeekAny
  \/ CloseCursors

CursorSpec == Init /\ [][CursorNext]_vars

\* Prepared statements.  stm is the statement prepared on the connection and
\* its last execution: the method called, the parameters given, the reply of
\* the backend, what the method returned, and the fault of the transport or
\* of the protocol that ended it, if any.  The requests go through the
\* session: state, tstatus, submode, sent (the messages of the last request),
\* issued (the number of requests sent) and exc are the connection's.

\* The number of parameters given to a call.
MaxParams == 2

\* The number of rows of a result.
MaxResult == 2

\* The row count of a command.
MaxCount == 2

\* Python objects: the type, the literal of a scalar, the items of a
\* sequence.
Py(type, lit, items) == [type |-> type, lit |-> lit, items |-> items]

None == Py("NoneType", "None", <<>>)

\* The objects given as parameters.
PyValues ==
  {Py("int", "5", <<>>), Py("str", "yesterday", <<>>), Py("date", "2009-03-11", <<>>)}

\* The serialization routine cannot convert the given object.
ParameterError == Exc("ParameterError", "--PAR", "CLIENT")

\* A malformed or unexpected frame.
ProtocolError == Exc("ProtocolError", "08P01", "CLIENT")

\* A statement as described by the backend when it was prepared: the types
\* of its parameters, the number of columns of its result, its command.
Statement(sql, ptypes, columns, command) ==
  [sql |-> sql, ptypes |-> ptypes, columns |-> columns, command |-> command]

Statements ==
  {Statement("SELECT $1::integer", <<"integer">>, 1, "SELECT"),
   Statement("SELECT $1::date", <<"date">>, 1, "SELECT"),
   Statement("SELECT $1::integer AS intname, $2::varchar AS chardata",
             <<"integer", "varchar">>, 2, "SELECT"),
   Statement("INSERT INTO employee VALUES ($1, $2)", <<"varchar", "date">>, 0, "INSERT"),
   Statement("INSERT INTO employee VALUES ($1, $2) RETURNING employee_name",
             <<"varchar", "date">>, 1, "INSERT")}

\* The execution methods: ps(*parameters) and ps.first(*parameters).
ExecutionMethods == {"__call__", "first"}

\* The Python type expected by the driver for a PostgreSQL type.
PyType(t) ==
  CASE t = "integer" -> "int"
    [] t = "date" -> "date"
    [] OTHER -> "str"

\* The given object is appropriate for the parameter's type.
Appropriate(t, v) == v.type = PyType(t)

\* Serialization of a parameter, and of a result column back into an object.
Encode(t, v) == [type |-> t, data |-> v.lit]
Decode(c) == Py(PyType(c.type), c.data, <<>>)

\* The parameters as they are sent.
Encoded(st, params) == [i \in 1..Len(params) |-> Encode(st.ptypes[i], params[i])]

\* A driver that checks the number of parameters only.
ValidatedCount(st, params) == Len(params) = Len(st.ptypes)

\* The parameters can be sent: as many as the statement takes, each
\* appropriate for its type.
Validated(st, params) ==
  /\ Len(params) = Len(st.ptypes)
  /\ \A i \in 1..Len(params) : Appropriate(st.ptypes[i], params[i])

\* A row count as the backend reports it in the command's completion.
Digit(k) == IF k = 0 THEN "0" ELSE <<"1", "2", "3", "4", "5", "6", "7", "8", "9">>[k]

\* The replies of the backend.
NoReply ==
  [shape |-> "none", command |-> "", count |-> "", rows |-> <<>>, error |-> NoExc]
RowData(command, rows) ==
  [shape |-> "rows", command |-> command, count |-> Digit(Len(rows)),
   rows |-> rows, error |-> NoExc]
CommandComplete(command, k) ==
  [shape |-> "command", command |-> command, count |-> Digit(k), rows |-> <<>>,
   error |-> NoExc]
ErrorResponse(e) ==
  [shape |-> "error", command |-> "", count |-> "", rows |-> <<>>, error |-> e]

\* The rows a statement produces: the first one holds the parameters cast to
\* the columns' types.
Cell(wire, j, i) ==
  IF j = 1 THEN wire[i] ELSE [type |-> wire[i].type, data |-> "another"]
ResultRows(st, wire, r) == [j \in 1..r |-> [i \in 1..st.columns |-> Cell(wire, j, i)]]

\* The backend executes the statement.  In a failed transaction block every
\* statement is refused; an INSERT may violate a constraint; a statement
\* with result columns replies with row data, any other with its command
\* and row count.
Replies(s, st, wire) ==
  IF s.status = "E" THEN {ErrorResponse(InFailedTransaction)}
  ELSE (IF st.command = "INSERT" THEN {ErrorResponse(UniqueError)} ELSE {})
       \cup (IF st.columns > 0
             THEN {RowData(st.command, ResultRows(st, wire, r)) : r \in 1..MaxResult}
             ELSE {CommandComplete(st.command, k) : k \in 0..MaxCount})

\* A row of a result.
Row(cells) == Py("Row", "", [i \in 1..Len(cells) |-> Decode(cells[i])])

\* ps(*parameters): the entire result set; for DML without row data, the
\* tuple of the completed command name and the associated row count.
Whole(reply) ==
  IF reply.shape = "rows"
  THEN Py("list", "", [j \in 1..Len(reply.rows) |-> Row(reply.rows[j])])
  ELSE Py("tuple", "", <<Py("str", reply.command, <<>>), Py("int", reply.count, <<>>)>>)

\* first() that returns the row count whenever the command is DML.
FirstByCommand(reply) ==
  IF reply.command = "INSERT" THEN Py("int", reply.count, <<>>)
  ELSE IF Len(reply.rows[1]) = 1 THEN Decode(reply.rows[1][1])
  ELSE Row(reply.rows[1])

\* ps.first(*parameters): the first value of a single column, the first row
\* of multiple columns, the row count when there is no row data.
First(reply) ==
  IF reply.shape = "rows"
  THEN (IF Len(reply.rows[1]) = 1 THEN Decode(reply.rows[1][1])
        ELSE Row(reply.rows[1]))
  ELSE Py("int", reply.count, <<>>)

\* The faults of the transport and of the protocol.
TransportFaults == {"short read", "I/O error"}
ProtocolFaults == {"malformed frame", "unexpected frame"}

FaultError(kind) ==
  IF kind \in TransportFaults THEN ConnectionFailureError ELSE ProtocolError

\* A session that survives faults of the protocol.
FaultStateProtocol(kind) == IF kind \in TransportFaults THEN "Closed" ELSE "Ready"

\* The state of the session after a fault.
FaultState(kind) == "Closed"

\* What a statement's execution leaves alone.
svars ==
  <<xacts, ctx, call, task, input, log, table, srvout, iter, buf, got, pipe, curs, xvars>>

\* ps = db.prepare(sql)
StmtPrepare ==
  /\ state = "Ready" /\ stm.pc = "none"
  /\ \E st \in Statements : stm' = [NoStmt EXCEPT !.pc = "prepared", !.st = st]
  /\ UNCHANGED <<state, tstatus, srv, exc, submode, sent, issued, svars>>

\* A transaction block is started, or ended.
StmtBlock ==
  /\ state = "Ready" /\ stm.pc \in {"prepared", "returned", "raised"}
  /\ srv' = [srv EXCEPT !.status = IF @ = "I" THEN "T" ELSE "I"]
  /\ tstatus' = srv'.status
  /\ UNCHANGED <<state, exc, submode, sent, issued, stm, svars>>

\* ps(*params) or ps.first(*params): on a closed connection it fails; when
\* the parameters cannot be serialized it raises ParameterError; otherwise
\* the parameters are bound and the statement executed.
StmtCall(method, params) ==
  /\ stm.pc \in {"prepared", "returned", "raised"}
  /\ state \in {"Ready", "Closed"}
  /\ LET called == [stm EXCEPT !.method = method, !.params = params,
                               !.reply = NoReply, !.result = None, !.fault = "none"]
     IN IF state = "Closed"
        THEN /\ exc' = ConnectionDoesNotExistError
             /\ stm' = [called EXCEPT !.pc = "raised"]
             /\ UNCHANGED <<state, tstatus, srv, submode, sent, issued>>
        ELSE IF ~Validated(stm.st, params)
        THEN /\ exc' = ParameterError
             /\ stm' = [called EXCEPT !.pc = "raised"]
             /\ UNCHANGED <<state, tstatus, srv, submode, sent, issued>>
        ELSE /\ issued < MaxOps
             /\ issued' = issued + 1
             /\ sent' = <<Msg("Bind", Encoded(stm.st, params)), Msg("Execute", <<>>)>>
             /\ state' = "Busy"
             /\ submode' = "executing"
             /\ exc' = NoExc
             /\ stm' = [called EXCEPT !.pc = "pending"]
             /\ UNCHANGED <<tstatus, srv>>
  /\ UNCHANGED svars

\* A session that an error of the backend closes.
ReplyStateFatal(reply) == IF reply.shape = "error" THEN "Closed" ELSE "Ready"

\* The state of the session at the ready-for-query marker that ends a reply,
\* an error included.
ReplyState(reply) == "Ready"

\* The reply of the backend, up to its ready-for-query marker.
StmtReply ==
  /\ state = "Busy" /\ stm.pc = "pending"
  /\ \E reply \in Replies(srv, stm.st, Encoded(stm.st, stm.params)) :
       /\ stm' = [stm EXCEPT
                    !.pc = IF reply.shape = "error" THEN "raised" ELSE "returned",
                    !.reply = reply,
                    !.result = IF reply.shape = "error" THEN None
                               ELSE IF stm.method = "first" THEN First(reply)
                               ELSE Whole(reply)]
       /\ exc' = reply.error
       /\ srv' = [srv EXCEPT
                    !.status = IF reply.shape = "error" /\ @ = "T" THEN "E" ELSE @]
       /\ state' = ReplyState(reply)
  /\ submode' = "none"
  /\ tstatus' = srv'.status
  /\ UNCHANGED <<sent, issued, svars>>

\* The transport or the protocol fails while the reply is read.
StmtFault(kind) ==
  /\ state = "Busy" /\ stm.pc = "pending"
  /\ state' = FaultState(kind)
  /\ submode' = "none"
  /\ exc' = FaultError(kind)
  /\ stm' = [stm EXCEPT !.pc = "raised", !.fault = kind]
  /\ srv' = Disconnected(srv)
  /\ UNCHANGED <<tstatus, sent, issued, svars>>

StmtCallAny ==
  \E method \in ExecutionMethods, params \in SeqsUpTo(PyValues, MaxParams) :
    StmtCall(method, params)

StmtFaultAny == \E kind \in TransportFaults \cup ProtocolFaults : StmtFault(kind)

\* The connection and its prepared statement.
StmtNext ==
  \/ Startup /\ UNCHANGED <<cvars, evars>>
  \/ Authenticate /\ UNCHANGED <<cvars, evars>>
  \/ Negotiate /\ UNCHANGED <<cvars, evars>>
  \/ StmtPrepare
  \/ StmtBlock
  \/ StmtCallAny
  \/ StmtReply
  \/ StmtFaultAny

StmtSpec == Init /\ [][StmtNext]_vars

\* Settings.  settings.gucs are the runtime parameters of the backend,
\* settings.open the blocks of with db.settings(...) that are open, innermost
\* last: the keyword arguments of each, what its context manager stored on
\* entry, and the parameters as they were when it was entered; settings.left
\* holds the block that has just exited, until the settings are used again.

\* The number of settings blocks open at a time.
MaxBlocks == 2

SettingNames == {"search_path", "timezone"}

SettingValues == {"default", "mst"}

\* The keyword arguments of db.settings(...): values for some of the names.
SettingArgs ==
  UNION {[K -> SettingValues] : K \in (SUBSET SettingNames) \ {{}}}

\* A context manager that takes the values to restore from the defaults.
GetDefaults(gucs, keys) == [k \in keys |-> "default"]

\* db.settings.getset([k1, ..., kn])
GetSet(gucs, keys) == [k \in keys |-> gucs[k]]

\* db.settings.update({k1 : v1, ..., kn : vn})
Update(gucs, kv) ==
  [k \in DOMAIN gucs |-> IF k \in DOMAIN kv THEN kv[k] ELSE gucs[k]]

\* What settings leave alone.
nvars ==
  <<state, tstatus, srv, xacts, ctx, exc, call, cvars, pipe, curs, stm, conv,
    stream, row>>

\* db.settings[k] = v
SetItem(k, v) ==
  /\ state = "Ready"
  /\ settings' = [settings EXCEPT !.gucs = Update(@, [x \in {k} |-> v]),
                                  !.left = <<>>]
  /\ UNCHANGED nvars

\* with db.settings(**kw): the block is entered.
SettingsEnter(kw) ==
  /\ state = "Ready"
  /\ Len(settings.open) < MaxBlocks
  /\ settings' = [settings EXCEPT
                    !.open = Append(@, [kw |-> kw,
                                        stored |-> GetSet(settings.gucs, DOMAIN kw),
                                        was |-> settings.gucs]),
                    !.left = <<>>,
                    !.gucs = Update(@, kw)]
  /\ UNCHANGED nvars

\* The innermost settings block exits.
SettingsExit ==
  /\ state = "Ready"
  /\ settings.open # <<>>
  /\ LET top == settings.open[Len(settings.open)]
     IN settings' = [settings EXCEPT
                       !.open = SubSeq(@, 1, Len(@) - 1),
                       !.left = <<top>>,
                       !.gucs = Update(@, top.stored)]
  /\ UNCHANGED nvars

SetItemAny == \E k \in SettingNames, v \in SettingValues : SetItem(k, v)

SettingsEnterAny == \E kw \in SettingArgs : SettingsEnter(kw)

\* The connection and its settings.
SettingsNext ==
  \/ Startup /\ UNCHANGED <<cvars, evars>>
  \/ Authenticate /\ UNCHANGED <<cvars, evars>>
  \/ Negotiate /\ UNCHANGED <<cvars, evars>>
  \/ SetItemAny
  \/ SettingsEnterAny
  \/ SettingsExit

SettingsSpec == Init /\ [][SettingsNext]_vars

\* Type support.  conv is one parameter on its way to the backend and back:
\* the PostgreSQL type it is bound to, the Python object given, its binary
\* form, and the Python object the binary form is read back as.

\* The number of characters of a str and of bytes of a bytes object.
MaxText == 2

\* Python objects with their content: the number of an int or float, the
\* code points of a str, the bytes of a bytes object, the items of a list,
\* tuple or Array.
Obj(type, n, items) == [type |-> type, n |-> n, items |-> items]

PyInt(n) == Obj("int", n, <<>>)

\* The PostgreSQL types with a conversion function that are modelled, and a
\* type without one.
IntTypes == {"smallint", "integer"}
StrTypes == {"varchar", "text", "macaddr"}
ScalarTypes == IntTypes \cup StrTypes \cup {"bytea", "float4"}

\* The objects given as parameters.
IntValues ==
  {PyInt(n) : n \in {0 - 2147483647, 0 - 40000, 0 - 32768, 0 - 129, 0 - 1, 0, 1,
                   255, 256, 32767, 40000, 2147483647}}
FloatValues ==
  {Obj("float", n, <<>>) : n \in {0 - 16777217, 0 - 3, 0, 1, 3, 16777216, 16777217,
                                  16777219}}
StrValues == {Obj("str", 0, s) : s \in SeqsUpTo({97, 233, 8364}, MaxText)}
BytesValues == {Obj("bytes", 0, s) : s \in SeqsUpTo({0, 97, 255}, MaxText)}

\* The bytes of a PostgreSQL integer type.
Width(t) == IF t = "smallint" THEN 2 ELSE 4

Pow256(k) ==
  CASE k = 0 -> 1
    [] k = 1 -> 256
    [] k = 2 -> 65536
    [] OTHER -> 16777216

\* The integer fits the type.  Four bytes hold every integer of the model.
InRange(t, n) == t = "smallint" => (n >= 0 - 32768 /\ n <= 32767)

\* An integer in network byte order, two's complement.
IntPack(w, n) == [i \in 1..w |-> (n \div Pow256(w - i)) % 256]

RECURSIVE Unsigned(_)
Unsigned(bs) ==
  IF bs = <<>> THEN 0
  ELSE Unsigned(SubSeq(bs, 1, Len(bs) - 1)) * 256 + bs[Len(bs)]

IntUnpack(bs) ==
  (IF bs[1] >= 128 THEN bs[1] - 256 ELSE bs[1]) * Pow256(Len(bs) - 1)
    + Unsigned(Tail(bs))

RECURSIVE Pow2(_)
Pow2(k) == IF k = 0 THEN 1 ELSE 2 * Pow2(k - 1)

RECURSIVE Log2(_)
Log2(a) == IF a < 2 THEN 0 ELSE 1 + Log2(a \div 2)

Abs(n) == IF n < 0 THEN 0 - n ELSE n

\* The sign, exponent and 23 fraction bits of a single precision number in
\* four bytes.
Float4Bytes(s, e, m) ==
  <<s * 128 + ((e + 127) \div 2), ((e + 127) % 2) * 128 + (m \div 65536),
    (m \div 256) % 256, m % 256>>

\* A float with a whole value in single precision: the bits that do not fit
\* the fraction are rounded off, to the nearest and to even on a tie.
Float4Pack(n) ==
  IF n = 0 THEN <<0, 0, 0, 0>>
  ELSE LET s == IF n < 0 THEN 1 ELSE 0
           e == Log2(Abs(n))
           r == Abs(n) - Pow2(e)
       IN  IF e <= 23 THEN Float4Bytes(s, e, r * Pow2(23 - e))
           ELSE LET k == e - 23
                    q == r \div Pow2(k)
                    rem == r % Pow2(k)
                    half == Pow2(k - 1)
                    m == IF rem > half \/ (rem = half /\ q % 2 = 1) THEN q + 1 ELSE q
                IN  IF m = Pow2(23) THEN Float4Bytes(s, e + 1, 0)
                    ELSE Float4Bytes(s, e, m)

Float4Unpack(bs) ==
  LET s == bs[1] \div 128
      e == (bs[1] % 128) * 2 + (bs[2] \div 128) - 127
      m == (bs[2] % 128) * 65536 + bs[3] * 256 + bs[4]
      a == IF e >= 23 THEN (Pow2(23) + m) * Pow2(e - 23)
           ELSE (Pow2(23) + m) \div Pow2(23 - e)
  IN  IF bs = <<0, 0, 0, 0>> THEN 0 ELSE IF s = 1 THEN 0 - a ELSE a

\* A str in the encoding of the connection, taken to be UTF-8.
Utf8(cp) ==
  IF cp < 128 THEN <<cp>>
  ELSE IF cp < 2048 THEN <<192 + (cp \div 64), 128 + (cp % 64)>>
  ELSE <<224 + (cp \div 4096), 128 + ((cp \div 64) % 64), 128 + (cp % 64)>>

RECURSIVE StrPack(_)
StrPack(cps) == IF cps = <<>> THEN <<>> ELSE Utf8(Head(cps)) \o StrPack(Tail(cps))

RECURSIVE StrUnpack(_)
StrUnpack(bs) ==
  IF bs = <<>> THEN <<>>
  ELSE IF bs[1] < 128 THEN <<bs[1]>> \o StrUnpack(SubSeq(bs, 2, Len(bs)))
  ELSE IF bs[1] < 224
  THEN <<(bs[1] - 192) * 64 + (bs[2] - 128)>> \o StrUnpack(SubSeq(bs, 3, Len(bs)))
  ELSE <<(bs[1] - 224) * 4096 + (bs[2] - 128) * 64 + (bs[3] - 128)>>
         \o StrUnpack(SubSeq(bs, 4, Len(bs)))

\* The outcome of a serialization: the binary form, or the failure that is
\* raised as ParameterError.
Packed(wire) == [ok |-> TRUE, wire |-> wire]
Unpackable == [ok |-> FALSE, wire |-> <<>>]

\* The I/O routines of a type without elements.  A type without a conversion
\* function takes and gives str, in the string format of the type.
ScalarPack(t, v) ==
  IF t \in IntTypes
  THEN (IF v.type = "int" /\ InRange(t, v.n) THEN Packed(IntPack(Width(t), v.n))
        ELSE Unpackable)
  ELSE IF t \in StrTypes
  THEN (IF v.type = "str" THEN Packed(StrPack(v.items)) ELSE Unpackable)
  ELSE IF t = "bytea"
  THEN (IF v.type = "bytes" THEN Packed(v.items) ELSE Unpackable)
  ELSE IF t = "float4"
  THEN (IF v.type = "float" THEN Packed(Float4Pack(v.n)) ELSE Unpackable)
  ELSE Unpackable

\* Unpacking that hands the data of a type without a conversion function out
\* as it came, in a bytes object.
ScalarUnpackRaw(t, wire) ==
  IF t \in IntTypes THEN PyInt(IntUnpack(wire))
  ELSE IF t \in {"varchar", "text"} THEN Obj("str", 0, StrUnpack(wire))
  ELSE IF t = "float4" THEN Obj("float", Float4Unpack(wire), <<>>)
  ELSE Obj("bytes", 0, wire)

ScalarUnpack(t, wire) ==
  IF t \in IntTypes THEN PyInt(IntUnpack(wire))
  ELSE IF t \in StrTypes THEN Obj("str", 0, StrUnpack(wire))
  ELSE IF t = "float4" THEN Obj("float", Float4Unpack(wire), <<>>)
  ELSE Obj("bytes", 0, wire)

\* Arrays.  The items of a dimension and the numbers in an item.
MaxItems == 3

ArrayTypes == {"integer[]", "point[]"}

ElementType(t) == IF t = "integer[]" THEN "integer" ELSE "point"

Oid(et) == IF et = "integer" THEN 23 ELSE 600

List(items) == Obj("list", 0, items)

Tuple(items) == Obj("tuple", 0, items)

Float(n) == Obj("float", n, <<>>)

\* The bits of a number, high bit first, and the number of the bits.
ToBits(b, w) == [j \in 1..w |-> (b \div Pow2(w - j)) % 2]

RECURSIVE FromBits(_)
FromBits(bits) ==
  IF bits = <<>> THEN 0
  ELSE 2 * FromBits(SubSeq(bits, 1, Len(bits) - 1)) + bits[Len(bits)]

\* A float with a whole value in double precision: sign, eleven bits of
\* exponent, 52 bits of fraction.
Float8Pack(n) ==
  IF n = 0 THEN <<0, 0, 0, 0, 0, 0, 0, 0>>
  ELSE LET s == IF n < 0 THEN 1 ELSE 0
           e == Log2(Abs(n))
           frac == ToBits(Abs(n) - Pow2(e), e) \o [i \in 1..(52 - e) |-> 0]
       IN  <<s * 128 + ((e + 1023) \div 16),
             ((e + 1023) % 16) * 16 + FromBits(SubSeq(frac, 1, 4))>>
             \o [k \in 1..6 |-> FromBits(SubSeq(frac, 8 * k - 3, 8 * k + 4))]

Float8Unpack(bs) ==
  LET e == (bs[1] % 128) * 16 + (bs[2] \div 16) - 1023
      frac == ToBits(bs[2] % 16, 4) \o ToBits(bs[3], 8) \o ToBits(bs[4], 8)
                \o ToBits(bs[5], 8) \o ToBits(bs[6], 8) \o ToBits(bs[7], 8)
                \o ToBits(bs[8], 8)
      a == Pow2(e) + FromBits(SubSeq(frac, 1, e))
  IN  IF bs = <<0, 0, 0, 0, 0, 0, 0, 0>> THEN 0
      ELSE IF bs[1] >= 128 THEN 0 - a ELSE a

\* A point is made of a pair of numbers and holds two floats.
IsNumber(v) == v.type \in {"int", "float"}

PointPack(v) ==
  IF v.type \in {"tuple", "list", "point"} /\ Len(v.items) = 2
       /\ \A i \in 1..Len(v.items) : IsNumber(v.items[i])
  THEN Packed(Float8Pack(v.items[1].n) \o Float8Pack(v.items[2].n))
  ELSE Unpackable

PointUnpack(wire) ==
  Obj("point", 0, <<Float(Float8Unpack(SubSeq(wire, 1, 8))),
                   Float(Float8Unpack(SubSeq(wire, 9, 16)))>>)

ElementPack(et, v) == IF et = "point" THEN PointPack(v) ELSE ScalarPack(et, v)

ElementUnpack(et, wire) ==
  IF et = "point" THEN PointUnpack(wire) ELSE ScalarUnpack(et, wire)

\* Boundaries that every sequence draws, tuples as well as lists.
RECURSIVE DimsOfSequences(_)
DimsOfSequences(items) ==
  <<Len(items)>> \o
    (IF Len(items) > 0 /\ items[1].type \in {"list", "tuple"}
     THEN DimsOfSequences(items[1].items) ELSE <<>>)

\* The dimensions of an array parameter: the root iterable is made of the
\* elements, and below it list objects delimit the boundaries.
RECURSIVE Dims(_)
Dims(items) ==
  <<Len(items)>> \o
    (IF Len(items) > 0 /\ items[1].type = "list" THEN Dims(items[1].items)
     ELSE <<>>)

\* Every item below a boundary is a sequence of the length of the dimension.
RECURSIVE Regular(_, _)
Regular(items, dims) ==
  /\ Len(items) = Head(dims)
  /\ Len(dims) > 1 =>
       \A i \in 1..Len(items) :
         /\ items[i].type \in {"list", "tuple"}
         /\ Regular(items[i].items, Tail(dims))

RECURSIVE Concat(_)
Concat(seqs) == IF seqs = <<>> THEN <<>> ELSE Head(seqs) \o Concat(Tail(seqs))

\* The elements of the array in row-major order.
RECURSIVE Leaves(_, _)
Leaves(items, depth) ==
  IF depth <= 1 THEN items
  ELSE Concat([i \in 1..Len(items) |-> Leaves(items[i].items, depth - 1)])

\* The binary form of an array: the number of dimensions, a flags word, the
\* type of the elements, the length and lower bound of each dimension, and
\* each element behind its length.
ArrayHeader(et, dims) ==
  IntPack(4, Len(dims)) \o IntPack(4, 0) \o IntPack(4, Oid(et))
    \o Concat([i \in 1..Len(dims) |-> IntPack(4, dims[i]) \o IntPack(4, 1)])

ArrayPack(et, v) ==
  IF v.type \notin {"list", "tuple"} \/ ~Regular(v.items, Dims(v.items))
  THEN Unpackable
  ELSE LET dims == Dims(v.items)
           leaves == Leaves(v.items, Len(dims))
           packed == [i \in 1..Len(leaves) |-> ElementPack(et, leaves[i])]
       IN  IF \E i \in 1..Len(leaves) : ~packed[i].ok THEN Unpackable
           ELSE Packed(ArrayHeader(et, dims)
                         \o Concat([i \in 1..Len(leaves) |->
                                     IntPack(4, Len(packed[i].wire))
                                       \o packed[i].wire]))

\* The elements behind their lengths.
RECURSIVE Elements(_)
Elements(bs) ==
  IF bs = <<>> THEN <<>>
  ELSE LET l == IntUnpack(SubSeq(bs, 1, 4))
       IN  <<SubSeq(bs, 5, 4 + l)>> \o Elements(SubSeq(bs, 5 + l, Len(bs)))

\* The elements in the boundaries of the dimensions.
RECURSIVE Nest(_, _)
Nest(dims, elems) ==
  IF Len(dims) <= 1 THEN elems
  ELSE LET size == Len(elems) \div Head(dims)
       IN  [i \in 1..Head(dims) |->
             List(Nest(Tail(dims), SubSeq(elems, (i - 1) * size + 1, i * size)))]

ArrayUnpack(et, wire) ==
  LET ndim == IntUnpack(SubSeq(wire, 1, 4))
      dims == [i \in 1..ndim |-> IntUnpack(SubSeq(wire, 8 * i + 5, 8 * i + 8))]
      elems == Elements(SubSeq(wire, 13 + 8 * ndim, Len(wire)))
  IN  Obj("Array", 0,
          Nest(dims, [i \in 1..Len(elems) |-> ElementUnpack(et, elems[i])]))

Pack(t, v) ==
  IF t \in ArrayTypes THEN ArrayPack(ElementType(t), v) ELSE ScalarPack(t, v)

Unpack(t, wire) ==
  IF t \in ArrayTypes THEN ArrayUnpack(ElementType(t), wire)
  ELSE ScalarUnpack(t, wire)

\* The array parameters given: n numbers, or n sequences of m numbers, the
\* number in place (i, j) being s + i + j - 2.
Numbers(s, n) == [j \in 1..n |-> PyInt(s + j - 1)]

ArrayValues ==
  UNION {
    { List(Numbers(s, n)), Tuple(Numbers(s, n)),
      List([i \in 1..n |-> List(Numbers(s + i - 1, m))]),
      Tuple([i \in 1..n |-> List(Numbers(s + i - 1, m))]),
      List([i \in 1..n |-> Tuple(Numbers(s + i - 1, m))]),
      List([i \in 1..n |-> List(Numbers(s + i - 1, IF i = 1 THEN m ELSE 1))]) }
    : s \in {0 - 2, 1}, n \in 1..MaxItems, m \in 1..MaxItems }

\* The objects given for a type.
Given(t) ==
  IF t \in ArrayTypes THEN ArrayValues \cup {PyInt(1)}
  ELSE IntValues \cup FloatValues \cup StrValues \cup BytesValues

\* What conversions leave alone.
tvars ==
  <<state, tstatus, srv, xacts, ctx, exc, call, cvars, pipe, curs, stm, settings,
    stream, row>>

\* A parameter is serialized for its type, or ParameterError is raised.
Serialize(t, v) ==
  /\ conv.pc # "packed"
  /\ conv' = [NoConv EXCEPT
                !.pc = IF Pack(t, v).ok THEN "packed" ELSE "failed",
                !.type = t, !.value = v, !.wire = Pack(t, v).wire]
  /\ UNCHANGED tvars

\* The binary form comes back as a column of the same type.
Deserialize ==
  /\ conv.pc = "packed"
  /\ conv' = [conv EXCEPT !.pc = "unpacked", !.back = Unpack(conv.type, conv.wire)]
  /\ UNCHANGED tvars

SerializeAny ==
  \E t \in ScalarTypes \cup ArrayTypes : \E v \in Given(t) : Serialize(t, v)

TypeNext == SerializeAny \/ Deserialize

TypeSpec == Init /\ [][TypeNext]_vars

\* Streaming rows.  stream is the iterator of ps.rows(*parameters): the
\* parameters, the rows the portal on the backend still holds, whether the
\* driver has seen the portal complete, the rows fetched and not yet
\* produced, the rows produced, and the round trips of the last pull.

\* The largest number of a series and the largest number of rows of a fetch.
MaxSeries == 3
MaxFetch == 2

\* The rows of SELECT i FROM generate_series($1, $2) AS g(i), as row data.
SeriesRows(from, to) ==
  [j \in 1..(IF to < from THEN 0 ELSE to - from + 1) |->
    <<[type |-> "integer", data |-> Digit(from + j - 1)]>>]

\* The first rows of a portal, as many as asked for.
Take(rows, n) == SubSeq(rows, 1, Min(n, Len(rows)))

Drop(rows, n) == SubSeq(rows, Min(n, Len(rows)) + 1, Len(rows))

\* The row data of a fetch as Row objects.
Materialized(rows) == [j \in 1..Len(rows) |-> Row(rows[j])]

\* An iterator that asks for more rows while one row is still buffered.
FetchesAhead(s) == Len(s.buffer) <= 1 /\ ~s.complete

\* More rows are asked for when the local buffer is exhausted and the portal
\* is not known to be complete.
Fetches(s) == s.buffer = <<>> /\ ~s.complete

\* What streaming leaves alone.
rvars ==
  <<state, tstatus, srv, xacts, ctx, exc, call, cvars, pipe, curs, stm, settings,
    conv, row>>

\* ps.rows(from, to): the parameters are bound to a new cursor.
RowsOpen(from, to, chunksize) ==
  /\ state = "Ready"
  /\ stream' = [NoStream EXCEPT
                  !.pc = "open", !.from = from, !.to = to,
                  !.chunksize = chunksize, !.portal = SeriesRows(from, to)]
  /\ UNCHANGED rvars

\* next(rows): the next buffered row; with the buffer exhausted, one fetch of
\* chunksize rows first; StopIteration when the portal has no more.
RowsPull ==
  /\ stream.pc \in {"open", "done"}
  /\ LET fetch == stream.pc = "open" /\ Fetches(stream)
         data == IF fetch THEN Take(stream.portal, stream.chunksize) ELSE <<>>
         rows == stream.buffer \o Materialized(data)
     IN  stream' =
           [stream EXCEPT
              !.pc = IF rows = <<>> THEN "done" ELSE @,
              !.portal = IF fetch THEN Drop(@, stream.chunksize) ELSE @,
              !.complete = IF fetch THEN Len(data) < stream.chunksize ELSE @,
              !.buffer = IF rows = <<>> THEN <<>> ELSE Tail(rows),
              !.yielded = IF rows = <<>> THEN @ ELSE Append(@, Head(rows)),
              !.trips = IF fetch THEN 1 ELSE 0]
  /\ UNCHANGED rvars

RowsOpenAny ==
  \E from \in 0..MaxSeries, to \in 0..MaxSeries, chunksize \in 1..MaxFetch :
    RowsOpen(from, to, chunksize)

\* The connection and a statement's rows.
StreamNext ==
  \/ Startup /\ UNCHANGED <<cvars, evars>>
  \/ Authenticate /\ UNCHANGED <<cvars, evars>>
  \/ Negotiate /\ UNCHANGED <<cvars, evars>>
  \/ RowsOpenAny
  \/ RowsPull

StreamSpec == Init /\ [][StreamNext]_vars

\* Rows.  row is a Row of a result with the names of its columns, and the
\* last item asked of it: the key or the index, and the value returned or
\* the error raised.

\* The number of columns of a row.
MaxColumns == 2

\* The names a result gives its columns, and a name of no column.
ColumnNames == {"intname", "chardata"}
Keys == ColumnNames \cup {"nosuchname"}

\* The data of a column.
ColumnData == {[type |-> "integer", data |-> d] : d \in {"1", "2"}}

\* The last column that carries the name.
IndexFromKeyLast(names, key) ==
  (CHOOSE i \in 1..Len(names) :
     names[i] = key /\ \A j \in (i + 1)..Len(names) : names[j] # key) - 1

\* row.index_from_key(key): the index associated with the key, which is the
\* first column that carries the name.  Indexes count from zero.
IndexFromKey(names, key) ==
  (CHOOSE i \in 1..Len(names) :
     names[i] = key /\ \A j \in 1..(i - 1) : names[j] # key) - 1

HasKey(names, key) == \E i \in 1..Len(names) : names[i] = key

\* What a row leaves alone.
wvars ==
  <<state, tstatus, srv, xacts, ctx, exc, call, cvars, pipe, curs, stm, settings,
    conv, stream>>

\* A row of a result set is returned.
RowReturned(names, cells) ==
  /\ row' = [NoRow EXCEPT
               !.pc = "row", !.column_names = names, !.values = Row(cells).items]
  /\ UNCHANGED wvars

\* row[index]: the value at that index, IndexError out of range.
GetItemIndex(index) ==
  /\ row.pc # "none"
  /\ row' = [row EXCEPT
               !.pc = "index", !.index = index, !.key = "",
               !.result = IF index < Len(row.values) THEN row.values[index + 1]
                          ELSE None,
               !.error = IF index < Len(row.values) THEN "" ELSE "IndexError"]
  /\ UNCHANGED wvars

\* row[key]: the value associated with the column name, KeyError when the
\* key does not exist.
GetItemKey(key) ==
  /\ row.pc # "none"
  /\ row' = [row EXCEPT
               !.pc = "key", !.key = key,
               !.index = IF HasKey(row.column_names, key)
                         THEN IndexFromKey(row.column_names, key) ELSE 0,
               !.result = IF HasKey(row.column_names, key)
                          THEN row.values[IndexFromKey(row.column_names, key) + 1]
                          ELSE None,
               !.error = IF HasKey(row.column_names, key) THEN "" ELSE "KeyError"]
  /\ UNCHANGED wvars

RowReturnedAny ==
  \E n \in 1..MaxColumns :
    \E names \in [1..n -> ColumnNames], cells \in [1..n -> ColumnData] :
      RowReturned(names, cells)

GetItemIndexAny == \E index \in 0..MaxColumns : GetItemIndex(index)

GetItemKeyAny == \E key \in Keys : GetItemKey(key)

RowNext == RowReturnedAny \/ GetItemIndexAny \/ GetItemKeyAny

RowSpec == Init /\ [][RowNext]_vars

\* A method is called in this step: directly, by __enter__ or by __exit__.
MethodCalled == Call \/ Execute \/ Enter \/ Exit

C2_ClosedAbsorbing ==
  /\ [](state # "Closed" => ENABLED ConnectionLost)
  /\ []((state = "Ready" /\ exc = NoExc) => ENABLED Close)
  /\ [][state = "Closed" => state' = "Closed"]_vars

\* C2 witness: the Session was closed while a method awaited the backend,
\* and methods have been called on it since.
C2_Witness ==
  /\ state = "Closed"
  /\ exc = ConnectionFailureError
  /\ xacts # <<>>


\* The with-block being left and the transaction it manages.
Innermost == ctx[Len(ctx)]

\* __exit__ is awaiting the backend, the block being left in the given way.
Exiting(kind) == state = "Busy" /\ call.how = "exit" /\ call.kind = kind

\* C3: when a with-block is left without an exception while the status byte
\* says failed, __exit__ calls rollback: the one statement it sends is the
\* transaction's rollback statement, never a commit; and it raises
\* InFailedTransactionError, code 25P02, source CLIENT, whatever the backend
\* answers and without marking the transaction committed.
C3_FailedExitRollsBack ==
  /\ [][(Exit /\ state = "Ready" /\ exc = NoExc /\ tstatus = "E") =>
          /\ Exiting("failed")'
          /\ call'.op = "rollback" /\ call'.x = Innermost
          /\ Wire'.c \in RollbackCmds]_vars
  /\ [][Exiting("failed") =>
          /\ state' # "Busy"
          /\ exc' = Exc("InFailedTransactionError", "25P02", "CLIENT")
          /\ xacts'[call.x].state # "Committed"
          /\ \A k \in 1..Len(ctx') : ctx'[k] # call.x]_vars

\* C3 witness: a with-block is being left in the failed state, the rollback
\* on the wire, after the caller trapped a database error inside the block.
C3_Witness ==
  /\ Exiting("failed")
  /\ call.pre = "E" /\ call.orig = NoExc
  /\ Wire.c = "ABORT"
  /\ srv.status = "E"

\* C4: when a with-block is left by a propagating exception of any kind,
\* __exit__ calls rollback and never commit, whatever the status byte is: the
\* one statement it sends is the transaction's rollback statement (none on a
\* closed Session), and the exception that left the block keeps propagating.
C4_ExceptionExitRollsBack ==
  /\ [][(Exit /\ exc # NoExc) =>
          IF state = "Closed"
          THEN Wire' = NoCmd /\ exc' = exc /\ xacts' = xacts
          ELSE /\ Exiting("exc")'
               /\ call'.op = "rollback" /\ call'.x = Innermost
               /\ call'.orig = exc
               /\ Wire'.c \in RollbackCmds]_vars
  /\ [][Exiting("exc") =>
          /\ state' # "Busy"
          /\ exc' = call.orig /\ exc' # NoExc
          /\ xacts'[call.x].state # "Committed"
          /\ \A k \in 1..Len(ctx') : ctx'[k] # call.x]_vars

\* C4 witness: a Python exception leaves the with-block of a block while the
\* status byte says in-transaction, the rollback on the wire.
C4_Witness ==
  /\ Exiting("exc")
  /\ call.orig = PythonException
  /\ call.pre = "T"
  /\ Wire.c = "ABORT"

\* C5: with db.xact(): __enter__ calls start, and the block is entered only
\* with the transaction Started; left without an exception while the status
\* byte does not say failed, __exit__ calls commit, which leaves the
\* transaction Committed when it succeeds, and for a transaction block
\* without gid the COMMIT always succeeds and the backend commits.
C5_NormalExitCommits ==
  /\ [][\A x \in 1..Len(xacts) :
          (EnterBlock(x) /\ state = "Ready" /\ xacts[x].state = "Unstarted") =>
             /\ state' = "Busy" \/ exc' = ConfiguredInsideBlock
             /\ state' = "Busy" =>
                  call'.op = "start" /\ call'.x = x /\ call'.how = "enter"]_vars
  /\ [][\A x \in 1..Len(xacts) :
          (~InBlock(x) /\ InBlock(x)') =>
             /\ call.op = "start" /\ call.x = x
             /\ xacts'[x].state = "Started"
             /\ exc' = NoExc]_vars
  /\ [][(Exit /\ state = "Ready" /\ exc = NoExc /\ tstatus # "E") =>
          /\ Exiting("normal")'
          /\ call'.op = "commit" /\ call'.x = Innermost
          /\ Wire'.c \in CommitCmds]_vars
  /\ [][(Exiting("normal") /\ ServerReply) =>
          /\ exc' = NoExc => xacts'[call.x].state = "Committed"
          /\ Wire.c = "COMMIT" =>
               /\ exc' = NoExc
               /\ srv'.fate = "committed"
               /\ tstatus' = "I"]_vars

\* C5 witness: the with-block of a started block is being left normally,
\* COMMIT on the wire.
C5_Witness ==
  /\ Exiting("normal")
  /\ Wire.c = "COMMIT"
  /\ xacts[call.x].state = "Started"
  /\ call.pre = "T"


\* start is called on transaction x, directly or by __enter__.
Starting(x) == Direct("start", x) \/ EnterBlock(x)

\* Transaction x is a transaction block in one of the given states.
BlockIn(x, states) == xacts[x].type = "block" /\ xacts[x].state \in states

\* C6: commit() called directly on a started transaction block (no gid)
\* while the status byte says failed issues COMMIT; the call succeeds
\* without exception, the transaction object is Committed, and the backend
\* has rolled the transaction back.
C6_DirectCommitOfFailedBlock ==
  /\ [][\A x \in 1..Len(xacts) :
          (/\ Direct("commit", x) /\ state = "Ready" /\ tstatus = "E"
           /\ BlockIn(x, {"Started"}) /\ xacts[x].gid = "") =>
             /\ state' = "Busy"
             /\ Wire' = Cmd("COMMIT", 0, "")
             /\ call'.x = x /\ call'.pre = "E"]_vars
  /\ [][(/\ state = "Busy" /\ ServerReply
         /\ call.how = "direct" /\ call.op = "commit"
         /\ Wire.c = "COMMIT" /\ call.pre = "E") =>
          /\ exc' = NoExc
          /\ xacts'[call.x].state = "Committed"
          /\ srv'.fate = "rolledback"
          /\ tstatus' = "I"]_vars

\* C6 witness: COMMIT is on the wire for a direct commit() of a block whose
\* transaction has failed.
C6_Witness ==
  /\ state = "Busy"
  /\ call.how = "direct" /\ call.op = "commit"
  /\ Wire = Cmd("COMMIT", 0, "")
  /\ call.pre = "E" /\ srv.status = "E"
  /\ BlockIn(call.x, {"Started"})

\* C7: starting a transaction configured with gid, isolation or mode while
\* another transaction block is Started on the Session raises
\* ActiveTransactionError; nothing is sent, and no transaction object, the
\* status byte and the backend included, changes.
C7_ConfiguredInsideBlockFails ==
  [][\A x \in 1..Len(xacts) :
       (/\ Starting(x) /\ state = "Ready"
        /\ xacts[x].state = "Unstarted" /\ Configured(xacts[x])
        /\ \E y \in 1..Len(xacts) : y # x /\ BlockIn(y, {"Started"})) =>
          /\ exc'.name = "ActiveTransactionError"
          /\ state' = "Ready" /\ Wire' = NoCmd
          /\ xacts' = xacts /\ srv' = srv /\ tstatus' = tstatus
          /\ ctx' = ctx]_vars

\* C7 witness: the start of a configured transaction was refused while a
\* block is Started.
C7_Witness ==
  /\ exc = ConfiguredInsideBlock
  /\ state = "Ready"
  /\ \E x, y \in 1..Len(xacts) :
       /\ xacts[x].state = "Unstarted" /\ Configured(xacts[x])
       /\ BlockIn(y, {"Started"})

\* The transaction blocks in one of the given states.
BlocksIn(states) == {x \in 1..Len(xacts) : BlockIn(x, states)}

\* C8 as claimed: at most one transaction block is Started or Prepared.
C8_AtMostOneActiveBlock == Cardinality(BlocksIn({"Started", "Prepared"})) <= 1

\* C8: at most one transaction block is Started on the Session; a Prepared
\* transaction is dissociated from the Session, which may start its next
\* block while the prepared one awaits its final commit or rollback.
C8_AtMostOneStartedBlock == Cardinality(BlocksIn({"Started"})) <= 1

\* C8 witness: a block is Started while another transaction is Prepared.
C8_Witness ==
  /\ BlocksIn({"Started"}) # {}
  /\ BlocksIn({"Prepared"}) # {}
  /\ state = "Ready" /\ tstatus = "T"

\* Transaction x is a Started savepoint.
StartedSavepoint(x) == xacts[x].type = "savepoint" /\ xacts[x].state = "Started"

\* C9 as claimed: a savepoint is Started only while a block is Started.
C9_SavepointOnlyInsideActiveBlock ==
  \A x \in 1..Len(xacts) : StartedSavepoint(x) => BlocksIn({"Started"}) # {}

\* C9: start() of a transaction created without configuration begins a
\* savepoint when a block is active on the Session (the status byte is not
\* idle) and a block otherwise; a savepoint becomes Started only inside the
\* backend's running transaction block.  (The savepoint object stays Started
\* when its block is committed or rolled back first.)
C9_StartSavepointOrBlock ==
  /\ [][\A x \in 1..Len(xacts) :
          (/\ Starting(x) /\ state = "Ready"
           /\ xacts[x].state = "Unstarted" /\ ~Configured(xacts[x])) =>
             /\ state' = "Busy" /\ call'.x = x /\ call'.op = "start"
             /\ IF tstatus = "I" /\ BlocksIn({"Started"}) = {}
                THEN Wire' = Cmd("START TRANSACTION", 0, "") /\ call'.type = "block"
                ELSE Wire' = Cmd("SAVEPOINT", x, "") /\ call'.type = "savepoint"]_vars
  /\ [][\A x \in 1..Len(xacts) :
          (~StartedSavepoint(x) /\ StartedSavepoint(x)') =>
             /\ tstatus' = "T" /\ srv'.status = "T"
             /\ Known(srv'.savepoints, x)
             /\ BlocksIn({"Started"}) # {}]_vars
  /\ [][\A x \in 1..Len(xacts) :
          (xacts[x].state = "Unstarted" /\ BlockIn(x, {"Started"})') =>
             /\ call.pre = "I" /\ tstatus' = "T"
             /\ BlocksIn({"Started"}) = {}]_vars

\* C9 witness: a savepoint is Started inside a Started block.
C9_Witness ==
  /\ state = "Ready"
  /\ \E x, y \in 1..Len(xacts) :
       /\ StartedSavepoint(x) /\ ~Configured(xacts[x])
       /\ BlockIn(y, {"Started"}) /\ ~Configured(xacts[y])
       /\ srv.savepoints = <<x>>

\* C10: commit() of a Started savepoint while the status byte says failed
\* sends RELEASE, which fails as the commit of a failed block does on exit:
\* InFailedTransactionError, code 25P02, this one raised by the backend; the
\* savepoint stays Started and the transaction stays failed.
C10_ReleaseInFailedTransaction ==
  /\ [][\A x \in 1..Len(xacts) :
          (/\ Direct("commit", x) /\ state = "Ready" /\ tstatus = "E"
           /\ StartedSavepoint(x)) =>
             /\ state' = "Busy"
             /\ Wire' = Cmd("RELEASE", x, "")
             /\ call'.x = x /\ call'.pre = "E"]_vars
  /\ [][(/\ state = "Busy" /\ ServerReply
         /\ call.op = "commit" /\ Wire.c = "RELEASE" /\ call.pre = "E") =>
          /\ exc'.name = InvalidBlockExit.name
          /\ exc'.code = InvalidBlockExit.code
          /\ exc' = InFailedTransaction
          /\ xacts'[call.x].state = "Started"
          /\ xacts' = xacts /\ srv' = srv /\ tstatus' = "E"]_vars

\* C10 witness: the release of a savepoint is on the wire while the
\* transaction is failed.
C10_Witness ==
  /\ state = "Busy"
  /\ call.op = "commit" /\ Wire.c = "RELEASE"
  /\ call.pre = "E" /\ srv.status = "E"
  /\ StartedSavepoint(call.x)

-----------------------------------------------------------------------------
\* The states of a transaction object.

\* The steps of a transaction object along its state machine.
MachineSteps ==
  {<<"Unstarted", "Started">>, <<"Started", "Prepared">>,
   <<"Started", "Committed">>, <<"Prepared", "Committed">>,
   <<"Unstarted", "RolledBack">>, <<"Started", "RolledBack">>,
   <<"Prepared", "RolledBack">>}

\* The step recover() takes: a transaction object that never started becomes
\* the handle of a transaction prepared earlier.
RecoverStep == <<"Unstarted", "Prepared">>

\* The change of state of transaction x in this step.
Moved(x) == <<xacts[x].state, xacts'[x].state>>

\* The method call of this step: the call awaiting the backend, or the call
\* made now.
Acting == IF state = "Busy" THEN call.op ELSE "none"

\* C11 as stated: every transaction object moves only along Unstarted ->
\* Started -> [Prepared] -> Committed | RolledBack, RolledBack being entered
\* from every state that is not terminal; Prepared is entered only from
\* Started, and Committed and RolledBack are never left.
C11_OnlyAlongStateMachine ==
  [][\A x \in 1..Len(xacts) :
       xacts'[x].state # xacts[x].state => Moved(x) \in MachineSteps]_vars

\* C11, amended: every transaction object moves only along the state machine
\* or, by recover(), from Unstarted to Prepared; Prepared is entered only by
\* a successful prepare() from Started or a successful recover() from
\* Unstarted; Committed and RolledBack are never left; and a direct rollback()
\* of a transaction that is not terminal either ends it RolledBack or fails
\* with the backend's error and leaves it where it was.
C11_StateMachineWithRecover ==
  /\ [][\A x \in 1..Len(xacts) :
          xacts'[x].state # xacts[x].state =>
            /\ Moved(x) \in MachineSteps \cup {RecoverStep}
            /\ Moved(x) = RecoverStep => Acting = "recover" /\ call.x = x
            /\ Moved(x) = <<"Started", "Prepared">> =>
                 Acting = "prepare" /\ call.x = x]_vars
  /\ [][\A x \in 1..Len(xacts) :
          xacts[x].state \in {"Committed", "RolledBack"} =>
            xacts'[x].state = xacts[x].state]_vars
  /\ [][\A x \in 1..Len(xacts) :
          (Direct("rollback", x) /\ state = "Ready"
             /\ xacts[x].state \in {"Unstarted", "Started", "Prepared"}) =>
            \/ xacts'[x].state = "RolledBack" /\ exc' = NoExc
            \/ state' = "Busy" /\ call'.op = "rollback" /\ call'.x = x
                 /\ Wire'.c \in RollbackCmds]_vars
  /\ [][(ServerReply /\ call.op = "rollback" /\ call.kind = "call") =>
          /\ exc' = NoExc <=> xacts'[call.x].state = "RolledBack"
          /\ exc' # NoExc => xacts' = xacts /\ exc'.source = "SERVER"]_vars

\* recover() is about to be answered for a transaction object that never
\* started and names a transaction prepared on the backend, while another
\* transaction object is finished.
C11_Witness ==
  /\ state = "Busy" /\ call.op = "recover"
  /\ xacts[call.x].state = "Unstarted"
  /\ Wire.g \in srv.prepared
  /\ \E y \in 1..Len(xacts) : xacts[y].state \in {"Committed", "RolledBack"}

-----------------------------------------------------------------------------
\* Prepared transactions.

\* Transaction x was configured with a gid, is started and was not prepared.
Unprepared(x) == xacts[x].state = "Started" /\ xacts[x].gid # ""

\* commit() of transaction x is called now on the open connection, directly
\* or by the normal exit of its with-block.
Committing(x) ==
  /\ state = "Ready"
  /\ \/ Direct("commit", x)
     \/ Exit /\ Innermost = x /\ Leaving = "normal"

\* The backend answers the commit() of a transaction with a gid that was not
\* prepared.
UnpreparedCommitAnswered ==
  ServerReply /\ call.op = "commit" /\ Unprepared(call.x)

\* C12 as stated: commit() of a started transaction with a gid that was never
\* prepared, called directly or by the exit of its with-block, still issues
\* COMMIT PREPARED, and the backend's error surfaces: ActiveTransactionError.
C12_UnpreparedCommitActiveTransactionError ==
  /\ [][\A x \in 1..Len(xacts) :
          (Committing(x) /\ Unprepared(x)) =>
            /\ state' = "Busy"
            /\ Wire' = Cmd("COMMIT PREPARED", 0, xacts[x].gid)]_vars
  /\ [][UnpreparedCommitAnswered =>
          /\ exc'.name = "ActiveTransactionError"
          /\ exc'.source = "SERVER"]_vars

\* C12, amended: commit() of a started transaction with a gid that was never
\* prepared, called directly or by the exit of its with-block, still issues
\* COMMIT PREPARED and never raises on the client; the backend's error
\* surfaces and the transaction is not committed.  The error is
\* ActiveTransactionError while the block is running, which is always so at
\* the normal exit of a with-block, and InFailedTransactionError when commit()
\* is called directly after the block has failed.
C12_UnpreparedCommitServerError ==
  /\ [][\A x \in 1..Len(xacts) :
          (Committing(x) /\ Unprepared(x)) =>
            /\ state' = "Busy"
            /\ Wire' = Cmd("COMMIT PREPARED", 0, xacts[x].gid)]_vars
  /\ [][UnpreparedCommitAnswered =>
          /\ exc' = IF tstatus = "E" THEN InFailedTransaction
                    ELSE CannotRunInsideBlock
          /\ exc'.source = "SERVER"
          /\ call.how = "exit" => exc'.name = "ActiveTransactionError"
          /\ xacts' = xacts
          /\ tstatus' = "E"
          /\ srv'.prepared = srv.prepared]_vars

\* The with-block of a transaction with a gid was left without prepare():
\* COMMIT PREPARED is on the wire inside the running block.
C12_Witness ==
  /\ state = "Busy" /\ call.op = "commit" /\ call.how = "exit"
  /\ Unprepared(call.x)
  /\ Wire.c = "COMMIT PREPARED"
  /\ srv.status = "T"

\* rollback() of transaction x is called now on the open connection, directly
\* or by the exit of its with-block.
RollingBack(x) ==
  /\ state = "Ready"
  /\ \/ Direct("rollback", x)
     \/ Exit /\ Innermost = x /\ Leaving # "normal"

\* The backend answers the rollback() of a transaction with a gid.
GidRollbackAnswered ==
  ServerReply /\ call.op = "rollback" /\ xacts[call.x].gid # ""

\* The statement rollback() issues for a transaction with a gid.
GidRollbackIssued ==
  \A x \in 1..Len(xacts) :
    (RollingBack(x) /\ xacts[x].gid # "") =>
      /\ Unprepared(x) =>
           state' = "Busy" /\ Wire' = Cmd("ABORT", 0, "")
      /\ xacts[x].state = "Prepared" =>
           state' = "Busy" /\ Wire' = Cmd("ROLLBACK PREPARED", 0, xacts[x].gid)

\* C13 as stated: rollback() of a transaction with a gid issues ABORT if the
\* transaction was not prepared and ROLLBACK PREPARED if it was, and in both
\* cases the transaction ends RolledBack.
C13_GidRollbackEndsRolledBack ==
  /\ [][GidRollbackIssued]_vars
  /\ [][GidRollbackAnswered => xacts'[call.x].state = "RolledBack"]_vars

\* C13, amended: rollback() of a transaction with a gid issues ABORT if the
\* transaction was not prepared and ROLLBACK PREPARED if it was.  ABORT always
\* ends the transaction RolledBack.  ROLLBACK PREPARED ends it RolledBack
\* exactly when the backend carries it out, that is outside a transaction
\* block and with the gid still prepared; otherwise the backend's error is
\* raised and the transaction stays Prepared.
C13_GidRollback ==
  /\ [][GidRollbackIssued]_vars
  /\ [][GidRollbackAnswered =>
          LET carried == Wire.c = "ABORT" \/
                         (srv.status = "I" /\ Wire.g \in srv.prepared)
          IN /\ Wire.c \in {"ABORT", "ROLLBACK PREPARED"}
             /\ carried => /\ xacts'[call.x].state = "RolledBack"
                           /\ call.kind = "call" => exc' = NoExc
                           /\ Wire.g \notin srv'.prepared \/ Wire.c = "ABORT"
             /\ ~carried => /\ xacts' = xacts
                            /\ xacts[call.x].state = "Prepared"
                            /\ call.kind = "call" => exc'.source = "SERVER"]_vars

\* ROLLBACK PREPARED is on the wire for a prepared transaction whose gid the
\* backend holds, outside a transaction block.
C13_Witness ==
  /\ state = "Busy" /\ call.op = "rollback"
  /\ xacts[call.x].state = "Prepared"
  /\ Wire = Cmd("ROLLBACK PREPARED", 0, xacts[call.x].gid)
  /\ srv.status = "I" /\ Wire.g \in srv.prepared

\* The backend answers recover().
RecoverAnswered == ServerReply /\ call.op = "recover"

\* recover() asks the backend for the prepared transaction named by the gid.
RecoverAsks ==
  \A x \in 1..Len(xacts) :
    (Direct("recover", x) /\ state = "Ready"
       /\ xacts[x].state = "Unstarted" /\ xacts[x].gid # "") =>
      state' = "Busy" /\ Wire' = Cmd("RECOVER", 0, xacts[x].gid)

\* A recovered or prepared handle is finalized by commit() with COMMIT
\* PREPARED and by rollback() with ROLLBACK PREPARED, which the backend
\* carries out outside a transaction block while the gid is prepared.
PreparedFinalized ==
  /\ \A x \in 1..Len(xacts) :
       (state = "Ready" /\ xacts[x].state = "Prepared") =>
         /\ Direct("commit", x) =>
              state' = "Busy" /\ Wire' = Cmd("COMMIT PREPARED", 0, xacts[x].gid)
         /\ Direct("rollback", x) =>
              state' = "Busy" /\ Wire' = Cmd("ROLLBACK PREPARED", 0, xacts[x].gid)
  /\ (ServerReply /\ Wire.c \in {"COMMIT PREPARED", "ROLLBACK PREPARED"}
        /\ xacts[call.x].state = "Prepared"
        /\ srv.status = "I" /\ Wire.g \in srv.prepared) =>
       /\ xacts'[call.x].state = StateAfter(call.op)
       /\ Wire.g \notin srv'.prepared

\* C14 as stated: recover() with gid g succeeds exactly when a prepared
\* transaction named g exists on the backend, after which the handle can be
\* finalized with commit() or rollback(); when no such prepared transaction
\* exists it fails with UndefinedObjectError.
C14_RecoverExactlyWhenPrepared ==
  /\ [][RecoverAsks /\ PreparedFinalized]_vars
  /\ [][RecoverAnswered =>
          IF Wire.g \in srv.prepared
          THEN exc' = NoExc /\ xacts'[call.x].state = "Prepared"
          ELSE exc' = UndefinedObjectError /\ xacts' = xacts]_vars

\* C14, amended: unless the connection is in a failed transaction block,
\* recover() with gid g succeeds exactly when a prepared transaction named g
\* exists on the backend, after which the handle is Prepared and can be
\* finalized with commit() or rollback(); when no such prepared transaction
\* exists it fails with UndefinedObjectError.  In a failed transaction block
\* it fails with InFailedTransactionError whether or not g exists.  A failed
\* recover() leaves the handle Unstarted, and recover() changes nothing on
\* the backend.
C14_RecoverOutsideFailedBlock ==
  /\ [][RecoverAsks /\ PreparedFinalized]_vars
  /\ [][RecoverAnswered =>
          /\ srv' = srv
          /\ CASE srv.status = "E" ->
                    exc' = InFailedTransaction /\ xacts' = xacts
               [] Wire.g \in srv.prepared ->
                    exc' = NoExc /\ xacts'[call.x].state = "Prepared"
               [] OTHER -> exc' = UndefinedObjectError /\ xacts' = xacts]_vars

\* recover() is about to be answered for a gid the backend does not hold,
\* outside a failed transaction block.
C14_Witness ==
  /\ state = "Busy" /\ call.op = "recover"
  /\ Wire.c = "RECOVER" /\ Wire.g \notin srv.prepared
  /\ srv.status # "E"

-----------------------------------------------------------------------------
\* The Session: Busy, ready-for-query and the order of requests.

\* C15: a Session that entered Busy leaves it only when ready-for-query is
\* observed, or by going Closed; the transaction-status byte is refreshed at
\* that marker, to the status the backend reports, and changes at no other
\* point: not when a statement is sent, not when a method fails on the
\* client, not when the connection is lost.
C15_BusyUntilReadyForQuery ==
  /\ [][(state = "Busy" /\ state' # "Busy") =>
          \/ state' = "Closed"
          \/ ServerReply /\ state' = "Ready" /\ call' = NoCall]_vars
  /\ [][ServerReply => tstatus' = srv'.status]_vars
  /\ [][tstatus' # tstatus => state = "Busy" /\ ServerReply]_vars
  /\ [][(state' = "Busy" /\ state # "Busy") =>
          state = "Ready" /\ Wire' # NoCmd /\ tstatus' = tstatus]_vars

\* START TRANSACTION is on the wire: the session is Busy and the status byte
\* still says idle, as the marker has not been observed.
C15_Witness ==
  /\ state = "Busy" /\ Wire.c = "START TRANSACTION"
  /\ tstatus = "I" /\ srv.status = "I"

\* A request takes the wire in this step.
RequestSent == log' # log

\* C16: operations on a Session are strictly sequential.  A request takes
\* the wire only while no earlier request awaits its ready-for-query (the
\* Session is Ready, no sub-protocol is active), and it is the request of the
\* running method, sent as one statement of its own.  The requests reach the
\* wire in the order the caller made them: none overtakes an earlier one,
\* none is sent twice, none is merged with another.
C16_StrictlySequential ==
  /\ [][RequestSent =>
          /\ state = "Ready" /\ submode = "none"
          /\ state' = "Busy" /\ submode' = "executing"
          /\ log' = Append(log, issued)
          /\ sent' = <<ExecuteMsg(task)>>]_vars
  /\ [][(submode # "none" /\ sent' # sent /\ sent' # <<>>) =>
          /\ ~RequestSent
          /\ \E m \in {"CopyData", "CopyDone", "CopyFail"} :
               sent'[Len(sent')].m = m /\ sent' = Append(sent, sent'[Len(sent')])]_vars
  /\ [](/\ \A i \in 1..Len(log) : log[i] \in 1..issued
        /\ \A i, j \in 1..Len(log) : i < j => log[i] < log[j])

\* A third request is on the wire, sent after the COPY TO STDOUT result that
\* the second left behind had been read into the iterator's buffer.
C16_Witness ==
  /\ state = "Busy" /\ submode = "executing"
  /\ Len(log) = 3 /\ log[3] = issued
  /\ iter = "open" /\ buf # <<>>

-----------------------------------------------------------------------------
\* COPY statements.

\* The Session enters the sub-mode m in this step.
Enters(m) == submode' = m /\ submode # m

\* The COPY statement st was executed and nothing else was sent since.
Executed(st) == sent = <<Msg("Execute", st)>>

\* C17: the Session is in exactly one of the sub-modes none, executing,
\* copy-in, copy-out, and at most one COPY is active: records of a COPY TO
\* STDOUT are outstanding only in copy-out, a COPY FROM STDIN is written only
\* in copy-in, and no statement is executed while either is active.  The
\* Session enters copy-in only on the CopyInResponse that answers an executed
\* COPY FROM STDIN statement, and copy-out only on the CopyOutResponse that
\* answers an executed COPY TO STDOUT statement.
C17_OneCopySubProtocol ==
  /\ [](/\ submode \in SubModes
        /\ srvout # <<>> => submode = "copy-out"
        /\ submode = "copy-out" => iter = "open"
        /\ submode = "copy-in" => sent # <<>> /\ sent[1] = ExecuteMsg("load"))
  /\ [][Enters("copy-in") =>
          /\ submode = "executing"
          /\ Executed("COPY FROM STDIN")
          /\ ReplyTo(sent[1]) = "CopyInResponse"
          /\ sent' = sent]_vars
  /\ [][Enters("copy-out") =>
          /\ submode = "executing"
          /\ Executed("COPY TO STDOUT")
          /\ ReplyTo(sent[1]) = "CopyOutResponse"
          /\ sent' = sent]_vars
  /\ [][(submode \in {"copy-in", "copy-out"} /\ sent' # sent /\ sent' # <<>>) =>
          sent'[Len(sent')].m # "Execute"]_vars

\* A COPY FROM STDIN is active while the iterator of an earlier COPY TO
\* STDOUT still holds the records that were read for it.
C17_Witness ==
  /\ submode = "copy-in" /\ task = "load"
  /\ iter = "open" /\ buf # <<>> /\ srvout = <<>>

\* A method called during a COPY TO STDOUT has yet to send its statement.
Draining == task # "none" /\ sent = <<>> /\ submode = "copy-out"

\* The running method is free to send its statement.
Clear == task # "none" /\ sent = <<>> /\ submode = "none" /\ state = "Ready"

\* C18: when another operation is invoked while records of a COPY TO STDOUT
\* remain unread, the call is accepted without error; the driver first reads
\* the entire rest of the COPY result, up to its ready-for-query, keeping
\* every record for the iterator, and raises no error; only then does it send
\* the statement of the other operation.  The driver is never stuck on the
\* way.
C18_CopyOutDrainedFirst ==
  /\ [][(CopyCall /\ submode = "copy-out") =>
          /\ task' \in {"execute", "load"}
          /\ exc' = NoExc
          /\ sent' = <<>> /\ log' = log
          /\ srvout' = srvout /\ buf' = buf]_vars
  /\ [][Draining =>
          \/ state' = "Closed"
          \/ /\ buf' \o srvout' = buf \o srvout
             /\ got' = got
             /\ exc' = NoExc
             /\ log' = log /\ sent' = sent /\ task' = task
             /\ srvout # <<>> =>
                  submode' = "copy-out" /\ Len(srvout') < Len(srvout)
             /\ srvout = <<>> => submode' = "none" /\ state' = "Ready"]_vars
  /\ [][RequestSent => srvout = <<>> /\ submode = "none" /\ exc' = NoExc]_vars
  /\ [][Clear =>
          \/ state' = "Closed"
          \/ RequestSent /\ sent' = <<ExecuteMsg(task)>> /\ buf' = buf]_vars
  /\ [](Draining => ENABLED (DrainData \/ DrainEnd))
  /\ [](Clear => ENABLED SendRequest)

\* db.execute(sql) was called after the caller had taken some records of a
\* COPY TO STDOUT, while others are still to come.
C18_Witness ==
  /\ Draining /\ task = "execute"
  /\ got # <<>> /\ srvout # <<>>

\* Another action is invoked in this step while load() writes a COPY FROM
\* STDIN.
Interrupting == task = "load" /\ submode = "copy-in" /\ task' = "execute"

\* An interrupted COPY FROM STDIN awaits the backend.
Interrupted == submode = "copy-in" /\ task = "execute"

\* C19: when another operation is invoked during a COPY FROM STDIN, before
\* CopyDone, the client does not reject it: it raises nothing itself and
\* makes the COPY fail; the backend aborts the COPY, loading none of its
\* records, and the COPY failure error it reports is raised.  Short of the
\* loss of the connection there is no other outcome.
C19_CopyInInterruptedFails ==
  /\ [][Interrupting =>
          /\ exc' = NoExc
          /\ sent' = Append(sent, CopyFail)
          /\ ~Last(sent, CopyDone)
          /\ log' = log /\ table' = table
          /\ state' = "Busy"]_vars
  /\ [][Interrupted =>
          \/ state' = "Closed" /\ table' = table
          \/ /\ exc' = CopyFailure /\ exc'.source = "SERVER"
             /\ table' = table
             /\ submode' = "none" /\ state' = "Ready" /\ task' = "none"
             /\ log' = log]_vars
  /\ [](Interrupted => Last(sent, CopyFail) /\ ENABLED CopyInFailed)

\* The iterable of load() invoked another action after a record had been
\* written: the COPY is failed and the backend has yet to answer.
C19_Witness ==
  /\ Interrupted /\ Last(sent, CopyFail)
  /\ DataOf(sent) # <<>> /\ Len(DataOf(sent)) < Len(input)

\* The CopyData messages of the records recs, one per record, in order.
RECURSIVE DataMsgs(_)
DataMsgs(recs) ==
  IF recs = <<>> THEN <<>> ELSE <<CopyData(Head(recs))>> \o DataMsgs(Tail(recs))

\* The messages of one COPY FROM STDIN given recs.
OneCopy(recs) == <<ExecuteMsg("load")>> \o DataMsgs(recs) \o <<CopyDone>>

\* ps.load(recs) is running.
Loading == task = "load"

\* ps.load(recs) returns in this step.
LoadReturns == Loading /\ task' = "none" /\ state' # "Closed"

\* The i first elements of the sequence s.
Prefix(s, i) == SubSeq(s, 1, i)

\* C20: one call of load() on a COPY FROM STDIN statement is exactly one
\* COPY: the statement is executed once, every message load() writes is the
\* next of Execute, one CopyData per record in the order given, CopyDone; and
\* when load() returns all of them were written, the backend has completed
\* the COPY with exactly these records, and the Session is out of copy-in,
\* Ready.
C20_LoadIsOneCopy ==
  /\ [](Loading =>
          \E i \in 0..Len(OneCopy(input)) : sent = Prefix(OneCopy(input), i))
  /\ [][(Loading /\ sent' # sent) =>
          \/ task' = "execute" /\ submode = "copy-in"
          \/ /\ Len(sent') = Len(sent) + 1
             /\ sent' = Prefix(OneCopy(input), Len(sent'))
             /\ input' = input]_vars
  /\ [][LoadReturns =>
          /\ sent = OneCopy(input)
          /\ submode = "executing"
          /\ table' = table \o input
          /\ submode' = "none" /\ state' = "Ready"
          /\ exc' = NoExc
          /\ log' = log /\ log # <<>> /\ log[Len(log)] = issued]_vars
  /\ [][(Loading /\ submode = "copy-in" /\ submode' # "copy-in") =>
          \/ state' = "Closed"
          \/ Last(sent', CopyDone) /\ submode' = "executing" /\ task' = task]_vars

\* load() has written CopyDone after two different records; the backend has
\* yet to complete the COPY.
C20_Witness ==
  /\ Loading /\ submode = "executing"
  /\ Len(input) = 2 /\ input[1] # input[2]
  /\ sent = OneCopy(input)
  /\ table # <<>>

\* The sequence s begins the sequence t.
IsPrefix(s, t) == Len(s) <= Len(t) /\ s = SubSeq(t, 1, Len(s))

\* The records of the COPY TO STDOUT: those the caller has taken, those read
\* for the iterator, and those the backend has yet to send.
CopyOutRecords == got \o buf \o srvout

C22_OneChunkAtATime ==
  /\ [](Len(pipe.held) <= 1)
  /\ [](Len(Flatten(pipe.held)) <= pipe.size)
  /\ [][(pipe.pc = "copying" /\ pipe'.source # pipe.source) =>
          /\ pipe.held = <<>>
          /\ Len(pipe'.held) = 1
          /\ pipe'.held[1] # <<>>
          /\ pipe'.held[1] \o pipe'.source = pipe.source
          /\ pipe'.dest = pipe.dest]_vars
  /\ [](pipe.pc \in {"copying", "done"} =>
          pipe.dest \o Flatten(pipe.held) \o pipe.source = pipe.all)
  /\ [](pipe.pc = "done" => pipe.dest = pipe.all)

\* A chunk of two records is half written while the source has more to
\* produce.
C22_Witness ==
  /\ pipe.pc = "copying" /\ pipe.size = 2
  /\ Len(pipe.held) = 1 /\ Len(pipe.held[1]) = 1
  /\ pipe.dest # <<>> /\ pipe.source # <<>>

\* This step is a read() on the open cursors; curs'.req holds its arguments.
Reading == curs.pc = "open" /\ curs'.pc = "open" /\ curs'.req.op = "read"

\* This step is a seek() on the open cursors; curs'.req holds its arguments.
Seeking == curs.pc = "open" /\ curs'.pc = "open" /\ curs'.req.op = "seek"

\* Cursor c of cs is exhausted in the direction a read(n, d) fetches: it is
\* after the last row when d fetches forward, before the first row when d
\* fetches backward.
Exhausted(cs, c, d) ==
  cs.pos[c] = IF FetchForward(Direction(c), d) THEN cs.n + 1 ELSE 0

\* C23: read(n, direction) returns fewer than n rows if and only if the
\* cursor is exhausted in that direction after it, on a cursor of either
\* direction property; the read that follows a short read in the same
\* direction, and every read of a cursor exhausted in its direction, returns
\* nothing.
C23_ShortReadIffExhausted ==
  /\ [][Reading =>
          \A c \in Cursors :
            /\ Len(curs'.res[c]) <= curs'.req.n
            /\ Len(curs'.res[c]) < curs'.req.n <=> Exhausted(curs', c, curs'.req.arg)
            /\ Exhausted(curs, c, curs'.req.arg) => curs'.res[c] = <<>>]_vars
  /\ [][(/\ Reading
         /\ curs.req.op = "read"
         /\ curs.req.n > 0
         /\ \A c \in Cursors :
              FetchForward(Direction(c), curs.req.arg)
                = FetchForward(Direction(c), curs'.req.arg)) =>
          \A c \in Cursors :
            Len(curs.res[c]) < curs.req.n => curs'.res[c] = <<>>]_vars

\* A read(2) of three rows that returned the one row left.
C23_Witness ==
  /\ curs.pc = "open" /\ curs.n = 3
  /\ curs.req = [op |-> "read", n |-> 2, arg |-> "FORWARD"]
  /\ curs.res["C"] = <<3>>
  /\ curs.pos["C"] = 4

\* The cursors are at mirrored positions: R is as far from its end as C is
\* from its beginning.
Mirrored(cs) == cs.pos["C"] + cs.pos["R"] = cs.n + 1

\* C24 as stated: every read with identical arguments returns element-wise
\* equal results on C and R, after every sequence of seeks and reads.
C24_SymmetryAlways == [][Reading => curs'.res["C"] = curs'.res["R"]]_vars

\* C24: an absolute or from-end seek with identical arguments puts C and R
\* at mirrored positions; from mirrored positions every seek and read with
\* identical arguments leaves them mirrored and every read, with the
\* default or an explicit direction, returns element-wise equal results on C
\* and R; on R a read with direction 'BACKWARD' is a forward fetch.
C24_SymmetryOnceSought ==
  /\ [][(Seeking /\ Whence(curs'.req.arg) # "RELATIVE") => Mirrored(curs')]_vars
  /\ [][(Mirrored(curs) /\ (Reading \/ Seeking)) => Mirrored(curs')]_vars
  /\ [][(Mirrored(curs) /\ Reading) => curs'.res["C"] = curs'.res["R"]]_vars
  /\ [][(Reading /\ curs'.req.arg \in {"BACKWARD", "False"}) =>
          /\ curs'.pos["R"] >= curs.pos["R"]
          /\ \A k \in DOMAIN curs'.res["R"] :
               curs'.res["R"][k] = Rows("R", curs.n)[curs.pos["R"] + k]]_vars

\* After a seek, a read(2, 'BACKWARD') returned the same two rows on both.
C24_Witness ==
  /\ curs.pc = "open" /\ curs.n = 3
  /\ curs.req = [op |-> "read", n |-> 2, arg |-> "BACKWARD"]
  /\ curs.res["C"] = <<2, 1>>
  /\ curs.res["R"] = <<2, 1>>
  /\ Mirrored(curs)

\* The position of cursor c when it is on the row of value v: row i of C
\* holds i, and row i of R holds cs.n + 1 - i.
OnRow(cs, c, v) == IF c = "C" THEN v ELSE cs.n + 1 - v

\* C25: the client never holds rows it did not return; after a read that
\* returned its full quantity the cursor is on the backend exactly on the
\* last row returned, after a shorter one it is beyond the end in the
\* direction of the fetch, and never more rows are returned than asked; a
\* seek moves the cursor from the position the earlier operations left it
\* at.
C25_NeverPrefetch ==
  /\ [](\A c \in Cursors : curs.held[c] = <<>>)
  /\ [][Reading =>
          \A c \in Cursors :
            /\ Len(curs'.res[c]) <= curs'.req.n
            /\ Len(curs'.res[c]) = curs'.req.n =>
                 curs'.pos[c] = OnRow(curs', c, curs'.res[c][curs'.req.n])
            /\ Len(curs'.res[c]) < curs'.req.n =>
                 Exhausted(curs', c, curs'.req.arg)]_vars
  /\ [][Seeking =>
          \A c \in Cursors :
            /\ curs'.res[c] = curs.res[c]
            /\ curs'.pos[c] =
                 Move(curs.n, curs.pos[c],
                      SeekAs(Direction(c), curs'.req.n, Whence(curs'.req.arg)).p,
                      SeekAs(Direction(c), curs'.req.n, Whence(curs'.req.arg)).whence)]_vars

\* A read(2) of three rows that returned two and left the third unread.
C25_Witness ==
  /\ curs.pc = "open" /\ curs.n = 3
  /\ curs.req = [op |-> "read", n |-> 2, arg |-> "None"]
  /\ curs.res["C"] = <<1, 2>>
  /\ curs.pos["C"] = 2
  /\ curs.held["C"] = <<>>

\* The last call was seek(p, w) with w one of ws, and this step is a
\* read(1, d) with d one of ds.
ReadAfterSeek(ws, ds) ==
  /\ Reading
  /\ curs.req.op = "seek" /\ curs.req.arg \in ws
  /\ curs'.req.n = 1 /\ curs'.req.arg \in ds

\* C26: on the cursor of default direction, seek(p, 'ABSOLUTE' or 0) places
\* the cursor p rows from the beginning, so that the next row forward is row
\* p + 1; seek(p, 'RELATIVE' or 1) moves it p rows forward for a positive p
\* and -p rows backward for a negative p, stopping beyond the last and the
\* first row; seek(p, 'FROM_END' or 2) places it p rows before the end, so
\* that the next row backward is row N - p, and after seek(0, 2) a
\* read(1, 'BACKWARD') returns the last row.
C26_SeekWhence ==
  /\ [][(Seeking /\ curs'.req.arg \in {"0", "ABSOLUTE"}) =>
          curs'.pos["C"] = Min(curs'.req.n, curs.n + 1)]_vars
  /\ [][(Seeking /\ curs'.req.arg \in {"1", "RELATIVE"}) =>
          curs'.pos["C"] = Max(0, Min(curs.pos["C"] + curs'.req.n, curs.n + 1))]_vars
  /\ [][(Seeking /\ curs'.req.arg \in {"2", "FROM_END"}) =>
          curs'.pos["C"] = Max(0, curs.n + 1 - curs'.req.n)]_vars
  /\ [][(ReadAfterSeek({"0", "ABSOLUTE"}, {"None", "FORWARD", "True"})
           /\ curs.req.n < curs.n) =>
          curs'.res["C"] = <<curs.req.n + 1>>]_vars
  /\ [][(ReadAfterSeek({"2", "FROM_END"}, {"BACKWARD", "False"})
           /\ curs.req.n < curs.n) =>
          curs'.res["C"] = <<curs.n - curs.req.n>>]_vars

\* seek(0, 2) on three rows: the cursor is after the last row.
C26_Witness ==
  /\ curs.pc = "open" /\ curs.n = 3
  /\ curs.req = [op |-> "seek", n |-> 0, arg |-> "2"]
  /\ curs.pos["C"] = 4

\* ps.first(*params) has returned.
FirstReturned == stm.pc = "returned" /\ stm.method = "first"

\* C27: what first() returns is decided by the reply of the backend: for a
\* result of a single column the value of that column in the first row, for
\* a result of multiple columns the first row, for a command without row
\* data the row count of the backend as an integer, and for DML with
\* RETURNING the row data and not the count; in each case it is that part of
\* what ps() returns for the same reply.
C27_FirstByReplyShape ==
  FirstReturned =>
    LET whole == Whole(stm.reply)
    IN /\ stm.reply.shape = "rows" <=> stm.st.columns > 0
       /\ stm.st.columns = 1 =>
            /\ stm.result = whole.items[1].items[1]
            /\ stm.result = Py(PyType(stm.reply.rows[1][1].type),
                               stm.reply.rows[1][1].data, <<>>)
            /\ stm.result = stm.params[1]
       /\ stm.st.columns > 1 =>
            /\ stm.result = whole.items[1]
            /\ stm.result.type = "Row"
            /\ Len(stm.result.items) = stm.st.columns
            /\ \A i \in 1..stm.st.columns : stm.result.items[i] = stm.params[i]
       /\ stm.st.columns = 0 =>
            /\ stm.result = Py("int", stm.reply.count, <<>>)
            /\ stm.result = whole.items[2]
            /\ whole.items[1] = Py("str", stm.st.command, <<>>)
       /\ (stm.st.command = "INSERT" /\ stm.st.columns > 0) =>
            /\ stm.result.type # "int"
            /\ stm.result = Row(stm.reply.rows[1]).items[1]

\* first() of an INSERT without RETURNING returned the row count 1.
C27_Witness ==
  /\ FirstReturned
  /\ stm.st.command = "INSERT" /\ stm.st.columns = 0
  /\ stm.result = Py("int", "1", <<>>)

\* A fault of the transport or of the protocol ends the pending execution
\* in this step.
Faulting == stm.pc = "pending" /\ stm'.fault # "none"

\* C28: a short read, an I/O error, a malformed frame or an unexpected frame
\* while an operation is pending closes the session in that same step and
\* is raised to the caller of that operation, as a transport error or as a
\* protocol error; the session is closed for as long as the fault is the
\* last outcome.
C28_FaultsCloseAndPropagate ==
  /\ [][Faulting =>
          /\ state = "Busy"
          /\ state' = "Closed"
          /\ stm'.pc = "raised"
          /\ stm'.method = stm.method /\ stm'.params = stm.params
          /\ stm'.fault \in {"short read", "I/O error"} =>
               exc' = ConnectionFailureError
          /\ stm'.fault \in {"malformed frame", "unexpected frame"} =>
               exc' = ProtocolError]_vars
  /\ [](stm.fault # "none" => state = "Closed" /\ stm.pc = "raised")

\* A malformed frame arrived while first() was pending.
C28_Witness ==
  /\ stm.fault = "malformed frame"
  /\ stm.method = "first"
  /\ stm.pc = "raised"
  /\ state = "Closed"
  /\ exc = ProtocolError

\* This step is a call of the statement on an open connection; stm' holds
\* the method and the parameters.
Calling ==
  /\ stm.pc \in {"prepared", "returned", "raised"}
  /\ stm'.pc \in {"pending", "raised"}
  /\ state = "Ready"
  /\ <<stm, exc>>' # <<stm, exc>>

\* The parameters of the call are not as many as the statement takes, or one
\* of them is not of the Python type its parameter type expects.
Unserializable ==
  \/ Len(stm'.params) # Len(stm.st.ptypes)
  \/ \E i \in 1..Len(stm'.params) : ~Appropriate(stm.st.ptypes[i], stm'.params[i])

\* Neither the session nor the backend is touched, and nothing is sent.
SessionUntouched ==
  /\ state' = state /\ tstatus' = tstatus /\ submode' = submode
  /\ sent' = sent /\ issued' = issued /\ srv' = srv

\* C29: a call whose parameters cannot be serialized raises ParameterError
\* and leaves the session's state, transaction status and sub-protocol as
\* they were, with no Bind and no Execute sent; a call raises ParameterError
\* for no other reason, and any other call sends Bind and Execute.
C29_ParameterErrorLeavesSession ==
  /\ [][(Calling /\ Unserializable) =>
          /\ exc' = ParameterError
          /\ stm'.pc = "raised"
          /\ SessionUntouched]_vars
  /\ [][(Calling /\ exc' = ParameterError) => Unserializable /\ SessionUntouched]_vars
  /\ [][(Calling /\ ~Unserializable) =>
          /\ issued' = issued + 1
          /\ Len(sent') = 2 /\ sent'[1].m = "Bind" /\ sent'[2].m = "Execute"
          /\ Len(sent'[1].d) = Len(stm.st.ptypes)
          /\ state' = "Busy" /\ submode' = "executing"]_vars

\* Inside a transaction block and after an earlier request,
\* ps.first('yesterday') of SELECT $1::date raised ParameterError.
C29_Witness ==
  /\ exc = ParameterError
  /\ stm.pc = "raised"
  /\ stm.st.sql = "SELECT $1::date"
  /\ stm.params = <<Py("str", "yesterday", <<>>)>>
  /\ state = "Ready" /\ tstatus = "T" /\ submode = "none"
  /\ issued = 1 /\ Len(sent) = 2

\* The states of a connection being established, and the state each is left
\* for when its step succeeds.
Establishing == {"Connecting", "Authenticating", "ParameterNegotiation"}

Established(s) ==
  CASE s = "Connecting" -> "Authenticating"
    [] s = "Authenticating" -> "ParameterNegotiation"
    [] OTHER -> "Ready"

\* connect() fails in this step.
ConnectFails == state \in Establishing /\ exc' = ConnectionFailureError

\* C30: while the connection is being established, a failure is possible at
\* the authentication step and at the negotiation of the startup settings,
\* and it leaves the Session Closed with nothing of a connection kept; a
\* Session being established is only left for its next step or for Closed;
\* Ready is entered only by completing the negotiation or by a reply to a
\* request, so a Session that failed to connect is never Ready; and no step
\* takes a Session back into an establishing state, nor can the
\* establishing steps be taken on a Closed one.
C30_ConnectFailureTerminal ==
  /\ [](state \in {"Authenticating", "ParameterNegotiation"} => ENABLED ConnectFailure)
  /\ [][ConnectFails =>
          /\ state' = "Closed"
          /\ tstatus' = tstatus /\ xacts' = <<>> /\ ctx' = <<>> /\ srv' = srv]_vars
  /\ [][(state \in Establishing /\ state' # state) =>
          state' \in {Established(state), "Closed"}]_vars
  /\ [][(state' \in Establishing /\ state' # state) =>
          state \in Establishing /\ state' = Established(state)]_vars
  /\ [][(state' = "Ready" /\ state # "Ready") =>
          state \in {"ParameterNegotiation", "Busy"}]_vars
  /\ [](state = "Closed" =>
          ~ENABLED Startup /\ ~ENABLED Authenticate /\ ~ENABLED Negotiate)
  /\ [][state = "Closed" => state' \notin Establishing \cup {"Ready"}]_vars

\* connect() has failed: the Session is Closed and was never used.
C30_Witness ==
  /\ state = "Closed"
  /\ exc = ConnectionFailureError
  /\ call = NoCall /\ xacts = <<>> /\ ctx = <<>>

\* The backend answers the pending execution with an error in this step.
ErrorAnswered == stm.pc = "pending" /\ stm'.reply.shape = "error"

\* C31: an error of the backend is raised to the caller as the backend
\* reported it, and at the ready-for-query marker the session is Ready, not
\* Closed; the status byte is failed when the error happened inside a
\* transaction block and idle when it happened outside of one; the next call
\* of the statement is accepted and sent to the backend.
C31_ServerErrorNotFatal ==
  /\ [][ErrorAnswered =>
          /\ exc' = stm'.reply.error
          /\ exc'.source = "SERVER"
          /\ stm'.pc = "raised"
          /\ state' = "Ready" /\ submode' = "none"
          /\ tstatus' = (IF tstatus = "I" THEN "I" ELSE "E")
          /\ tstatus' = srv'.status]_vars
  /\ [][(Calling /\ exc.source = "SERVER" /\ ~Unserializable) =>
          state' = "Busy" /\ issued' = issued + 1]_vars
  /\ []((stm.pc = "raised" /\ exc.source = "SERVER" /\ issued < MaxOps) =>
          /\ state = "Ready"
          /\ ENABLED StmtCall("first", stm.params))

\* An INSERT inside a transaction block violated a constraint: UniqueError
\* was raised, the session is Ready and the status byte says failed.
C31_Witness ==
  /\ stm.pc = "raised"
  /\ exc = UniqueError
  /\ stm.st.command = "INSERT"
  /\ state = "Ready"
  /\ tstatus = "E"

\* A settings block exits in this step.
SettingsExiting == Len(settings'.open) = Len(settings.open) - 1

\* C32: when a settings block exits, every setting named in its call has
\* the value it had when the block was entered, whatever was set inside the
\* block or by blocks inside it, and every other setting keeps the value it
\* has at the exit; while the block is entered the named settings take the
\* given values.
C32_SettingsRestored ==
  /\ [][SettingsExiting =>
          LET top == settings.open[Len(settings.open)]
          IN /\ settings'.left = <<top>>
             /\ \A k \in DOMAIN top.kw : settings'.gucs[k] = top.was[k]
             /\ \A k \in SettingNames \ DOMAIN top.kw :
                  settings'.gucs[k] = settings.gucs[k]]_vars
  /\ [][Len(settings'.open) = Len(settings.open) + 1 =>
          LET top == settings'.open[Len(settings'.open)]
          IN /\ top.was = settings.gucs
             /\ \A k \in DOMAIN top.kw : settings'.gucs[k] = top.kw[k]
             /\ \A k \in SettingNames \ DOMAIN top.kw :
                  settings'.gucs[k] = settings.gucs[k]]_vars

\* A block with timezone = 'default' was entered while timezone was 'mst',
\* and has exited: timezone is 'mst' again.
C32_Witness ==
  /\ settings.open = <<>>
  /\ settings.left # <<>>
  /\ DOMAIN settings.left[1].kw = {"timezone"}
  /\ settings.left[1].kw["timezone"] = "default"
  /\ settings.left[1].was["timezone"] = "mst"
  /\ settings.gucs["timezone"] = "mst"

\* The whole number without its factors of two.
RECURSIVE OddPart(_)
OddPart(a) == IF a = 0 \/ a % 2 = 1 THEN a ELSE OddPart(a \div 2)

\* The Python object is a value of the PostgreSQL type: of the Python type
\* that represents it, and a number the type can hold.
ValueOf(t, v) ==
  CASE t = "smallint" -> v.type = "int" /\ v.n >= 0 - 32768 /\ v.n <= 32767
    [] t = "integer" -> v.type = "int"
    [] t = "float4" -> v.type = "float" /\ OddPart(Abs(v.n)) < 16777216
    [] t = "bytea" -> v.type = "bytes"
    [] OTHER -> v.type = "str"

AllOf(items, types) == \A i \in 1..Len(items) : items[i].type \in types

\* The dimension is made of sequences of one length, of the given types, that
\* hold ints.
RowsOf(items, types) ==
  /\ AllOf(items, types)
  /\ \A i \in 1..Len(items) :
       /\ Len(items[i].items) = Len(items[1].items)
       /\ AllOf(items[i].items, {"int"})

Points(items) ==
  [i \in 1..Len(items) |->
    Obj("point", 0, <<Float(items[i].items[1].n), Float(items[i].items[2].n)>>)]

\* C34: an array parameter takes its dimensions from nested lists only.  Bound
\* to int[], a sequence of ints comes back as the one-dimensional Array of
\* these ints and a sequence of lists of ints as the Array of these lists;
\* a list of tuples is taken for one dimension of tuples and is refused with
\* ParameterError.  Bound to point[], the list of pairs is serialized and
\* comes back as one dimension of points.
C34_ListsDelimitArrays ==
  conv.type \in ArrayTypes /\ conv.value.type \in {"list", "tuple"} =>
    LET items == conv.value.items IN
    /\ conv.type = "integer[]" /\ (AllOf(items, {"int"}) \/ RowsOf(items, {"list"})) =>
         /\ conv.pc # "failed"
         /\ conv.pc = "unpacked" => conv.back = Obj("Array", 0, items)
    /\ conv.type = "integer[]" /\ AllOf(items, {"tuple"}) => conv.pc = "failed"
    /\ conv.type = "point[]" /\ RowsOf(items, {"tuple"}) /\ Len(items[1].items) = 2 =>
         /\ conv.pc # "failed"
         /\ conv.pc = "unpacked" => conv.back = Obj("Array", 0, Points(items))

\* [[1,2],[2,3]] bound to int[] has come back as Array([[1,2],[2,3]]).
C34_Witness ==
  /\ conv.pc = "unpacked"
  /\ conv.type = "integer[]"
  /\ conv.value = List(<<List(<<PyInt(1), PyInt(2)>>), List(<<PyInt(2), PyInt(3)>>)>>)
  /\ conv.back = Obj("Array", 0, conv.value.items)
  /\ Len(conv.wire) = 60

\* What ps(from, to) returns: the entire result set.
WholeRows(s) == Whole(RowData("SELECT", SeriesRows(s.from, s.to))).items

Pulling == stream.pc \in {"open", "done"} /\ stream'.pc \in {"open", "done"} /\ RowsPull

\* C35: rows() produces the rows that the call of the statement returns for
\* the same parameters, in their order and each once: what was produced,
\* what is buffered and what the portal holds are that result at any time,
\* and the exhausted iterator has produced all of it.  A pull produces at
\* most the next row and never takes one back, an exhausted iterator stays
\* exhausted, and a pull makes at most one round trip, none while the local
\* buffer holds rows.
C35_RowsStreamOnDemand ==
  [][Pulling =>
       /\ stream'.yielded \o stream'.buffer \o Materialized(stream'.portal)
            = WholeRows(stream)
       /\ stream'.pc = "done" => stream'.yielded = WholeRows(stream)
       /\ \/ stream'.yielded = stream.yielded /\ stream'.pc = "done"
          \/ /\ stream.pc = "open"
             /\ Len(stream.yielded) < Len(WholeRows(stream))
             /\ stream'.yielded
                  = Append(stream.yielded, WholeRows(stream)[Len(stream.yielded) + 1])
       /\ stream.pc = "done" => stream' = [stream EXCEPT !.trips = 0]
       /\ stream'.trips <= 1
       /\ stream.buffer # <<>> => stream'.trips = 0 /\ stream'.portal = stream.portal]_vars

\* The three rows of generate_series(1, 3) were produced two at a fetch: the
\* third pull made the second round trip and saw the portal complete.
C35_Witness ==
  /\ stream.pc = "open"
  /\ stream.from = 1 /\ stream.to = 3 /\ stream.chunksize = 2
  /\ Len(stream.yielded) = 3
  /\ stream.yielded = WholeRows(stream)
  /\ stream.trips = 1
  /\ stream.complete

\* The value row[key] has just returned.
Looked == row.pc = "key" /\ row.error = ""

\* The first column of its name.
FirstOfName(names, i) == \A j \in 1..(i - 1) : names[j] # names[i]

OutermostExitAnswered(x) ==
  /\ state = "Busy"
  /\ call.how = "exit"
  /\ ctx = <<x>>
  /\ xacts[x].type = "block"
  /\ ServerReply

\* The statements that finalize a block: its commit or its rollback.
Finalizing == {"COMMIT", "COMMIT PREPARED", "ABORT", "ROLLBACK PREPARED"}

\* The with-block is left, the status byte is idle and the backend runs no
\* block, after the one finalizing statement of the exit.
Finalized ==
  /\ ctx' = <<>>
  /\ tstatus' = "I"
  /\ srv'.status = "I"
  /\ call.cmd.c \in Finalizing
  /\ call' = NoCall

\* C37 as stated: every exit of an outermost with-block over a transaction
\* block leaves the status byte idle and no block active.
C37_ExitAlwaysIdle ==
  [][\A x \in 1..Len(xacts) : OutermostExitAnswered(x) => Finalized]_vars

\* C37: the exit of an outermost with-block over a transaction block that
\* has no gid issues one finalizing statement, COMMIT when the block is left
\* normally and ABORT when an exception or the failed state leaves it, and
\* on each of these paths the status byte is idle and no block is active
\* afterwards; so does the rollback of a block with a gid.  The normal exit
\* of a block with a gid that was not prepared issues COMMIT PREPARED, which
\* the backend refuses: the block stays active, now failed.
C37_ExitFinalizes ==
  [][\A x \in 1..Len(xacts) :
       OutermostExitAnswered(x) =>
         /\ call.cmd.c \in Finalizing
         /\ ctx' = <<>> /\ call' = NoCall
         /\ xacts[x].gid = "" =>
              /\ Finalized
              /\ call.cmd.c = (IF call.kind = "normal" THEN "COMMIT" ELSE "ABORT")
         /\ call.cmd.c = "ABORT" => Finalized
         /\ xacts[x].gid # "" /\ xacts[x].state = "Started" /\ call.kind = "normal" =>
              /\ call.cmd.c = "COMMIT PREPARED"
              /\ tstatus' = "E"
              /\ exc' = CannotRunInsideBlock
              /\ xacts'[x].state = "Started"]_vars

\* The with-block of a block without gid was left by an exception: ABORT was
\* answered, the status byte is idle and the exception goes on.
C37_Witness ==
  /\ state = "Ready"
  /\ ctx = <<>>
  /\ tstatus = "I"
  /\ srv.fate = "rolledback"
  /\ exc = PythonException
  /\ Len(xacts) = 1
  /\ xacts[1].gid = ""
  /\ xacts[1].type = "block"
  /\ xacts[1].state = "RolledBack"

\* The backend answers the __exit__ of the innermost with-block, a block over
\* the started savepoint x inside a started transaction block, that an
\* exception or the failed state leaves.
SavepointExitAnswered(x) ==
  /\ state = "Busy"
  /\ call.how = "exit"
  /\ call.kind \in {"exc", "failed"}
  /\ ctx # <<>> /\ Innermost = x
  /\ StartedSavepoint(x)
  /\ BlocksIn({"Started"}) # {}
  /\ ServerReply

\* The savepoint alone is rolled back: the blocks are as they were, and the
\* status byte says in-transaction.
OnlySavepointRolledBack(x) ==
  /\ call.cmd = Cmd("ROLLBACK TO", x, "")
  /\ xacts'[x].state = "RolledBack"
  /\ \A y \in 1..Len(xacts) : y # x => xacts'[y] = xacts[y]
  /\ BlocksIn({"Started"})' = BlocksIn({"Started"})
  /\ tstatus' = "T"
  /\ srv'.status = "T"

\* C38 as stated.
C38_SavepointExitAlwaysRecovers ==
  [][\A x \in 1..Len(xacts) : SavepointExitAnswered(x) => OnlySavepointRolledBack(x)]_vars

\* C38: the exit of a with-block over a savepoint that an exception or the
\* failed state leaves issues ROLLBACK TO that savepoint and touches no other
\* transaction: the enclosing block stays Started.  While the savepoint
\* exists on the backend it alone is rolled back, the status byte is
\* in-transaction afterwards, whether it was failed or not, and a COMMIT of
\* the enclosing block would commit.  When an enclosing savepoint was
\* released or rolled back inside the with-block, the savepoint is gone, the
\* ROLLBACK TO is refused and the status byte is failed.
C38_SavepointExitRecovers ==
  [][\A x \in 1..Len(xacts) :
       SavepointExitAnswered(x) =>
         /\ call.cmd = Cmd("ROLLBACK TO", x, "")
         /\ \A y \in 1..Len(xacts) : y # x => xacts'[y] = xacts[y]
         /\ BlocksIn({"Started"})' = BlocksIn({"Started"})
         /\ ctx' = SubSeq(ctx, 1, Len(ctx) - 1)
         /\ Known(srv.savepoints, x) =>
              /\ OnlySavepointRolledBack(x)
              /\ ~Known(srv'.savepoints, x)
              /\ Backend(srv', Cmd("COMMIT", 0, ""))
                   = {Outcome(Ended(srv', "committed"), NoExc)}
         /\ ~Known(srv.savepoints, x) =>
              /\ tstatus' = "E"
              /\ xacts'[x].state = "Started"]_vars

\* A with-block over savepoint 2 inside block 1 was left in the failed state:
\* the savepoint is rolled back, InFailedTransactionError is raised, and
\* the status byte says in-transaction with the block Started.
C38_Witness ==
  /\ state = "Ready"
  /\ Len(xacts) >= 2
  /\ BlockIn(1, {"Started"})
  /\ xacts[2].type = "savepoint" /\ xacts[2].state = "RolledBack"
  /\ ctx = <<1>>
  /\ exc = InvalidBlockExit
  /\ tstatus = "T"
  /\ srv.status = "T"

\* The rest of the COPY TO STDOUT was read because another action was
\* invoked: the iterator is in use and the COPY is complete.
Drained == iter = "open" /\ submode # "copy-out"

\* The other action has completed and the caller is free to go on.
Resumable == Drained /\ task = "none" /\ exc = NoExc

\* C39: once the rest of a COPY TO STDOUT was read for another action, the
\* records kept for the iterator are touched by the iterator alone: whatever
\* the other action does, and whether it succeeds or fails, the records the
\* caller has taken followed by the records kept stay the same sequence;
\* the last step of the reading adds nothing and takes nothing; after the
\* other action the iterator can be pulled, each pull hands out the first
\* record kept, and the iterator is exhausted only when none is kept.
C39_DrainedRecordsKept ==
  /\ [][(Draining /\ iter = "open" /\ Drained') =>
          srvout = <<>> /\ buf' = buf /\ got' = got]_vars
  /\ [][Drained =>
          /\ iter' \in {"open", "done"}
          /\ got' \o buf' = got \o buf
          /\ \/ got' = got /\ buf' = buf
             \/ /\ Resumable
                /\ buf # <<>>
                /\ got' = Append(got, Head(buf))
                /\ buf' = Tail(buf)
          /\ iter' = "done" => Resumable /\ buf = <<>> /\ got' = got]_vars
  /\ [](Drained => srvout = <<>>)
  /\ [](Drained => IsPrefix(got \o buf, table))
  /\ [](Resumable => ENABLED NextRecord)

\* db.execute(sql) was called after the first of the two records of a COPY
\* and has completed: the second record is kept for the iterator.
C39_Witness ==
  /\ Resumable
  /\ Len(log) = 3
  /\ Len(table) = 2 /\ table[1] # table[2]
  /\ got = <<table[1]>>
  /\ buf = <<table[2]>>

====
